---- MODULE Spec2Model ----
(***************************************************************************)
(* Structural comparison engine of api-comparison                          *)
(* (src/libs/comparison_engine.py): majority-vote schema inference and the *)
(* recursive structural differ, as a state machine over bounded inputs.    *)
(*                                                                         *)
(* Python values are tagged records [t |-> type(x).__name__, v |-> x]:     *)
(*   NoneType  v = "None"                                                  *)
(*   bool      v = TRUE / FALSE                                            *)
(*   int       v = the integer                                             *)
(*   float     v = the value in tenths (15 stands for 1.5)                 *)
(*   str       v = the string                                              *)
(*   dict      v = a function from its keys (strings) to values            *)
(*   list      v = a sequence of values                                    *)
(* A diff record is a TLA+ record with the keys of the Python dict.        *)
(***************************************************************************)
EXTENDS Integers, Sequences, FiniteSets, Bags, TLC

VARIABLES pc, hashSeed, obj1, obj2, path, differences, items, common_structure

\* compare_headers: the two header dicts, the flag and the result
VARIABLES headers1, headers2, ignore_flag, header_diff

\* one pair of representatives and the results of compare_request_structures
\* and compare_response_structures
VARIABLES legacy_entry, nextgen_entry, request_diff, response_diff

\* compare_apis: the two parsed entry lists and the report
VARIABLES legacy_entries, nextgen_entries, report

\* the type tags of obj1 and obj2 as the extractors and mismatch tests see them
VARIABLES structures

\* collect_requests: whether the requests library was imported, the parsed
\* requests with their responses, the index of the request the loop is at, the
\* requests make_request was called for, those sent over the network, and the
\* dict returned
VARIABLES has_requests, requests_list, next_request, issued, sent, collected

\* APIComparator.compare: the two request lists and the result
VARIABLES old_requests, new_requests, comparison

\* the activations of deep_compare_json still to run, and those already run
VARIABLES pending, activations

differVars == <<obj1, obj2, path, differences>>
inferVars == <<items, common_structure>>
headerVars == <<headers1, headers2, ignore_flag, header_diff>>
pairVars == <<legacy_entry, nextgen_entry, request_diff, response_diff>>
apiVars == <<legacy_entries, nextgen_entries, report>>

collectVars == <<has_requests, requests_list, next_request, issued, sent, collected>>
comparatorVars == <<old_requests, new_requests, comparison>>
walkVars == <<pending, activations>>
toolVars == <<collectVars, comparatorVars, walkVars>>
coreVars == <<differVars, inferVars, headerVars, pairVars, apiVars, structures>>

vars == <<pc, hashSeed, differVars, inferVars, headerVars, pairVars, apiVars,
          structures, toolVars>>

(***************************************************************************)
(* Bounds                                                                  *)
(***************************************************************************)
\* longest array given to deep_compare_json
MaxArr == 2
\* longest example list given to extract_common_list_structure
MaxLen == 3
\* string-hash states 0..MaxSeed of the interpreter (PYTHONHASHSEED)
MaxSeed == 1

(***************************************************************************)
(* Python values                                                           *)
(***************************************************************************)
None == [t |-> "NoneType", v |-> "None"]
PyBool(b) == [t |-> "bool", v |-> b]
PyInt(n) == [t |-> "int", v |-> n]
PyFloat(tenths) == [t |-> "float", v |-> tenths]
PyStr(s) == [t |-> "str", v |-> s]
PyDict(f) == [t |-> "dict", v |-> f]
PyList(s) == [t |-> "list", v |-> s]

EmptyDict == PyDict([k \in {} |-> None])
EmptyList == PyList(<<>>)

\* the variables of an operation that is not the one running
DifferIdle == obj1 = None /\ obj2 = None /\ path = "" /\ differences = <<>>
InferIdle == items = <<>> /\ common_structure = None
HeaderIdle ==
    headers1 = <<>> /\ headers2 = <<>> /\ ignore_flag = FALSE /\ header_diff = None
PairIdle ==
    legacy_entry = None /\ nextgen_entry = None /\ request_diff = None
    /\ response_diff = None
ApiIdle == legacy_entries = <<>> /\ nextgen_entries = <<>> /\ report = None
StructuresIdle == structures = None
CollectIdle ==
    /\ has_requests = TRUE /\ requests_list = <<>> /\ next_request = 0
    /\ issued = <<>> /\ sent = <<>> /\ collected = None
ComparatorIdle == old_requests = <<>> /\ new_requests = <<>> /\ comparison = None
WalkIdle == pending = <<>> /\ activations = <<>>
ToolsIdle == CollectIdle /\ ComparatorIdle /\ WalkIdle
CoreIdle ==
    DifferIdle /\ InferIdle /\ HeaderIdle /\ PairIdle /\ ApiIdle /\ StructuresIdle

\* type(x).__name__
TypeName(x) == x.t

(***************************************************************************)
(* Iteration order of a Python set of strings.  It follows the strings'    *)
(* hashes, which CPython salts per process (PYTHONHASHSEED): the order is  *)
(* fixed inside one run and differs between runs.  Seed h stands for the   *)
(* order StrOrder rotated by h places, so that every string of a set can   *)
(* be the one met first.                                                   *)
(***************************************************************************)
StrOrder == <<"int", "str", "NoneType", "dict", "list", "float", "bool",
              "a", "b", "id", "name", "tags", "extra", "", "root">>

StrIndex(s) == CHOOSE i \in 1..Len(StrOrder) : StrOrder[i] = s

HashRank(s, h) ==
    (StrIndex(s) - 1 + Len(StrOrder) - (h % Len(StrOrder))) % Len(StrOrder)

\* the element a `for` loop over set S meets first
FirstOfSet(S, h) == CHOOSE s \in S : \A r \in S : HashRank(s, h) <= HashRank(r, h)

RECURSIVE SetIteration(_, _)
SetIteration(S, h) ==
    IF S = {} THEN <<>>
    ELSE LET s == FirstOfSet(S, h) IN <<s>> \o SetIteration(S \ {s}, h)

(***************************************************************************)
(* extract_common_list_structure (lines 36-120)                            *)
(***************************************************************************)
\* type_counts[item_type] after the counting loop (lines 54-59)
TypeCount(tp, seq) == Cardinality({i \in 1..Len(seq) : TypeName(seq[i]) = tp})

\* max(type_counts.items(), key=lambda x: x[1])[0] (line 62): type_counts is a
\* dict, iterated in insertion order, and max keeps the first greatest entry:
\* the type of the earliest item whose type has the greatest count
MostCommonType(seq) ==
    LET best(i) == \A j \in 1..Len(seq) :
                      TypeCount(TypeName(seq[j]), seq) <= TypeCount(TypeName(seq[i]), seq)
        first == CHOOSE i \in 1..Len(seq) :
                    best(i) /\ \A j \in 1..(i - 1) : ~best(j)
    IN TypeName(seq[first])

\* type_items[most_common_type] (line 63), and the filter of line 92
ItemsOfType(seq, tp) == SelectSeq(seq, LAMBDA x : TypeName(x) = tp)

\* max(set(value_types), key=value_types.count) (lines 88-89): the set is
\* iterated in hash order and max keeps the first greatest element
MostCommonValueType(values, h) ==
    LET types == {TypeName(values[i]) : i \in 1..Len(values)}
        top == {tp \in types :
                  \A other \in types : TypeCount(other, values) <= TypeCount(tp, values)}
    IN FirstOfSet(top, h)

\* key_counts[key] (lines 71-73)
KeyCount(key, dicts) == Cardinality({i \in 1..Len(dicts) : key \in DOMAIN dicts[i].v})

\* key_structures[key] (lines 74-76): the values under key, in item order
RECURSIVE KeyStructures(_, _)
KeyStructures(key, dicts) ==
    IF Len(dicts) = 0 THEN <<>>
    ELSE (IF key \in DOMAIN Head(dicts).v THEN <<Head(dicts).v[key]>> ELSE <<>>)
         \o KeyStructures(key, Tail(dicts))

\* count > majority_threshold with majority_threshold = len(most_common_items) / 2
\* (lines 79, 83); the quotient is a float, so the test is 2 * count > len
\* faulty variant: half of the items is enough
MajorityKeptInclusive(count, total) == 2 * count >= total
\* the test of the code
MajorityKept(count, total) == 2 * count > total

\* all_nested_items (lines 109-111)
\* faulty variant: only the first list is taken
AllNestedItemsFirstOnly(lists) ==
    IF Len(lists) = 0 THEN <<>> ELSE Head(lists).v
\* the loop of the code: every list is extended into the pool
RECURSIVE AllNestedItems(_)
AllNestedItems(lists) ==
    IF Len(lists) = 0 THEN <<>>
    ELSE Head(lists).v \o AllNestedItems(Tail(lists))

\* len(items) == 0 (line 47)
\* faulty variant: the guard is missing
NoItemsNever(seq) == FALSE
\* the code
NoItems(seq) == Len(seq) = 0

RECURSIVE extract_common_list_structure(_, _)
extract_common_list_structure(seq, h) ==
    IF NoItems(seq) THEN EmptyList
    ELSE
      LET most_common_type == MostCommonType(seq)
          most_common_items == ItemsOfType(seq, most_common_type)
      IN
      IF most_common_type = "dict" THEN
        LET all_keys == UNION {DOMAIN most_common_items[i].v :
                                  i \in 1..Len(most_common_items)}
            kept == {key \in all_keys :
                       MajorityKept(KeyCount(key, most_common_items),
                                    Len(most_common_items))}
            structure(key) ==
              LET values == KeyStructures(key, most_common_items)
                  most_common_value_type == MostCommonValueType(values, h)
                  same_type_values == ItemsOfType(values, most_common_value_type)
              IN IF most_common_value_type \in {"dict", "list"}
                 THEN extract_common_list_structure(same_type_values, h)
                 ELSE PyStr(most_common_value_type)
        IN PyDict([key \in kept |-> structure(key)])
      ELSE IF most_common_type = "list" THEN
        LET all_nested_items == AllNestedItems(most_common_items)
        IN IF Len(all_nested_items) > 0
           THEN PyList(<<extract_common_list_structure(all_nested_items, h)>>)
           ELSE EmptyList
      ELSE PyStr(most_common_type)

\* the types whose values have no len() and cannot be iterated
Unsized == {"NoneType", "bool", "int", "float"}

\* whether a call of extract_common_list_structure raises: max() of an empty
\* type_counts (line 62), item.items() of an item that is no dict (line 72),
\* extend() with an item that cannot be iterated (line 111), or a recursive
\* call that raises (lines 96, 99, 114)
RECURSIVE ExtractRaises(_, _)
ExtractRaises(seq, h) ==
    IF NoItems(seq) THEN FALSE
    ELSE IF Len(seq) = 0 THEN TRUE
    ELSE
      LET most_common_type == MostCommonType(seq)
          most_common_items == ItemsOfType(seq, most_common_type)
      IN
      IF most_common_type = "dict" THEN
        \/ \E i \in 1..Len(most_common_items) : TypeName(most_common_items[i]) # "dict"
        \/ \E key \in UNION {DOMAIN most_common_items[i].v :
                               i \in 1..Len(most_common_items)} :
             /\ MajorityKept(KeyCount(key, most_common_items), Len(most_common_items))
             /\ LET values == KeyStructures(key, most_common_items)
                    most_common_value_type == MostCommonValueType(values, h)
                IN /\ most_common_value_type \in {"dict", "list"}
                   /\ ExtractRaises(ItemsOfType(values, most_common_value_type), h)
      ELSE IF most_common_type = "list" THEN
        \/ \E i \in 1..Len(most_common_items) :
             TypeName(most_common_items[i]) \in Unsized
        \/ /\ Len(AllNestedItems(most_common_items)) > 0
           /\ ExtractRaises(AllNestedItems(most_common_items), h)
      ELSE FALSE

(***************************************************************************)
(* deep_compare_json (lines 123-209)                                       *)
(***************************************************************************)
\* type(obj1) != type(obj2) (line 139)
\* faulty variant: an isinstance test, under which a bool is an int
TypesDifferIsinstance(a, b) ==
    ~(TypeName(a) = TypeName(b) \/ (TypeName(a) = "bool" /\ TypeName(b) = "int"))
\* the test of the code: identity of the two types
TypesDiffer(a, b) == TypeName(a) # TypeName(b)

\* path or 'root' (line 142)
RootPath(p) == IF p # "" THEN p ELSE "root"

\* f"{path}.{key}" if path else key (line 154)
KeyPath(p, key) == IF p # "" THEN p \o "." \o key ELSE key

\* f"{path}[*]" if path else "[*]" (lines 177, 183, 193)
ItemPath(p) == IF p # "" THEN p \o "[*]" ELSE "[*]"

\* the record of lines 140-147
TypeMismatch(a, b, p) ==
    [type |-> "type_mismatch", path |-> RootPath(p),
     legacy |-> TypeName(a), nextgen |-> TypeName(b),
     legacy_value |-> a, nextgen_value |-> b]

\* the record of lines 156-160 and 196-200
Added(p, value) == [type |-> "added", path |-> p, nextgen_value |-> value]

\* the record of lines 162-166 and 186-190
Removed(p, value) == [type |-> "removed", path |-> p, legacy_value |-> value]

RECURSIVE deep_compare_json(_, _, _, _)

\* one pass of the loop body over all_keys (lines 154-169)
\* faulty variant: 'added' and 'removed' exchanged
KeyDifferencesSwapped(key, a, b, p, h) ==
    IF key \notin DOMAIN a.v THEN <<Removed(KeyPath(p, key), b.v[key])>>
    ELSE IF key \notin DOMAIN b.v THEN <<Added(KeyPath(p, key), a.v[key])>>
    ELSE deep_compare_json(a.v[key], b.v[key], KeyPath(p, key), h)
\* faulty variant: a key only obj1 has is not reported
KeyDifferencesAddedOnly(key, a, b, p, h) ==
    IF key \notin DOMAIN a.v THEN <<Added(KeyPath(p, key), b.v[key])>>
    ELSE IF key \notin DOMAIN b.v THEN <<>>
    ELSE deep_compare_json(a.v[key], b.v[key], KeyPath(p, key), h)
\* the loop body of the code
KeyDifferences(key, a, b, p, h) ==
    IF key \notin DOMAIN a.v THEN <<Added(KeyPath(p, key), b.v[key])>>
    ELSE IF key \notin DOMAIN b.v THEN <<Removed(KeyPath(p, key), a.v[key])>>
    ELSE deep_compare_json(a.v[key], b.v[key], KeyPath(p, key), h)

\* the loop `for key in all_keys` (lines 152-169), keys in iteration order
RECURSIVE DictDifferences(_, _, _, _, _)
DictDifferences(keys, a, b, p, h) ==
    IF Len(keys) = 0 THEN <<>>
    ELSE KeyDifferences(Head(keys), a, b, p, h)
         \o DictDifferences(Tail(keys), a, b, p, h)

\* the list branch (lines 172-201)
\* faulty variant: the shape of obj1 is compared with obj2 itself
ListDifferencesRawSecond(a, b, p, h) ==
    IF Len(a.v) > 0 /\ Len(b.v) > 0
    THEN deep_compare_json(extract_common_list_structure(a.v, h), b, ItemPath(p), h)
    ELSE IF Len(a.v) > 0 /\ Len(b.v) = 0
    THEN <<Removed(ItemPath(p), extract_common_list_structure(a.v, h))>>
    ELSE IF Len(a.v) = 0 /\ Len(b.v) > 0
    THEN <<Added(ItemPath(p), extract_common_list_structure(b.v, h))>>
    ELSE <<>>
\* faulty variant: the two lengths are compared as well
ListDifferencesWithLength(a, b, p, h) ==
    IF Len(a.v) > 0 /\ Len(b.v) > 0
    THEN (IF Len(a.v) # Len(b.v)
          THEN <<[type |-> "changed", path |-> RootPath(p),
                  legacy_value |-> PyInt(Len(a.v)), nextgen_value |-> PyInt(Len(b.v))]>>
          ELSE <<>>)
         \o deep_compare_json(extract_common_list_structure(a.v, h),
                              extract_common_list_structure(b.v, h), ItemPath(p), h)
    ELSE IF Len(a.v) > 0 /\ Len(b.v) = 0
    THEN <<Removed(ItemPath(p), extract_common_list_structure(a.v, h))>>
    ELSE IF Len(a.v) = 0 /\ Len(b.v) > 0
    THEN <<Added(ItemPath(p), extract_common_list_structure(b.v, h))>>
    ELSE <<>>
\* faulty variant: 'added' and 'removed' exchanged
ListDifferencesSwapped(a, b, p, h) ==
    IF Len(a.v) > 0 /\ Len(b.v) > 0
    THEN deep_compare_json(extract_common_list_structure(a.v, h),
                           extract_common_list_structure(b.v, h), ItemPath(p), h)
    ELSE IF Len(a.v) > 0 /\ Len(b.v) = 0
    THEN <<Added(ItemPath(p), extract_common_list_structure(a.v, h))>>
    ELSE IF Len(a.v) = 0 /\ Len(b.v) > 0
    THEN <<Removed(ItemPath(p), extract_common_list_structure(b.v, h))>>
    ELSE <<>>
\* the list branch of the code
ListDifferences(a, b, p, h) ==
    IF Len(a.v) > 0 /\ Len(b.v) > 0
    THEN deep_compare_json(extract_common_list_structure(a.v, h),
                           extract_common_list_structure(b.v, h), ItemPath(p), h)
    ELSE IF Len(a.v) > 0 /\ Len(b.v) = 0
    THEN <<Removed(ItemPath(p), extract_common_list_structure(a.v, h))>>
    ELSE IF Len(a.v) = 0 /\ Len(b.v) > 0
    THEN <<Added(ItemPath(p), extract_common_list_structure(b.v, h))>>
    ELSE <<>>

deep_compare_json(a, b, p, h) ==
    IF TypesDiffer(a, b) THEN <<TypeMismatch(a, b, p)>>
    ELSE IF TypeName(a) = "dict"
    THEN DictDifferences(SetIteration(DOMAIN a.v \cup DOMAIN b.v, h), a, b, p, h)
    ELSE IF TypeName(a) = "list" THEN ListDifferences(a, b, p, h)
    ELSE <<>>

\* whether a call of deep_compare_json raises: obj2.keys() of a value that is
\* no dict (line 152), len(obj2) of a value without a length (line 175), or a
\* call made from it that raises (lines 169, 178-180, 185, 195)
RECURSIVE DiffRaises(_, _, _)
DiffRaises(a, b, h) ==
    IF TypesDiffer(a, b) THEN FALSE
    ELSE IF TypeName(a) = "dict" THEN
      \/ TypeName(b) # "dict"
      \/ \E key \in DOMAIN a.v \cap DOMAIN b.v : DiffRaises(a.v[key], b.v[key], h)
    ELSE IF TypeName(a) = "list" THEN
      \/ TypeName(b) \in Unsized
      \/ /\ Len(a.v) > 0
         /\ Len(b.v) > 0
         /\ \/ ExtractRaises(a.v, h)
            \/ ExtractRaises(b.v, h)
            \/ DiffRaises(extract_common_list_structure(a.v, h),
                          extract_common_list_structure(b.v, h), h)
      \/ Len(a.v) > 0 /\ Len(b.v) = 0 /\ ExtractRaises(a.v, h)
      \/ Len(a.v) = 0 /\ Len(b.v) > 0 /\ ExtractRaises(b.v, h)
    ELSE FALSE

(***************************************************************************)
(* Inputs                                                                  *)
(***************************************************************************)
Keys == {"a", "b"}

\* all sequences over S of length 0..n
SeqsUpTo(S, n) == UNION {[1..k -> S] : k \in 0..n}

\* all dicts with keys among K and values in S
DictsOver(K, S) == UNION {[D -> S] : D \in SUBSET K}

Dict1(k, x) == PyDict([key \in {k} |-> x])

\* primitives: two values of a type where the value could matter
Scalars == {None, PyBool(TRUE), PyBool(FALSE), PyInt(1), PyInt(2), PyFloat(15),
            PyStr("x"), PyStr("y")}

\* elements of the arrays handed to deep_compare_json
DiffElems == {PyInt(1), PyStr("x"), Dict1("a", PyInt(1)), Dict1("a", PyStr("x")),
              PyList(<<PyInt(1)>>)}

\* field values of the objects handed to deep_compare_json
DiffFields == {None, PyInt(1), PyFloat(15), PyStr("x"), PyList(<<PyStr("x")>>),
               Dict1("a", PyInt(1)), PyList(<<Dict1("b", PyInt(1))>>)}

\* the end-to-end bodies of spec section 8
ExampleLegacy ==
    PyDict([key \in {"id", "name", "tags"} |->
              CASE key = "id" -> PyInt(1)
                [] key = "name" -> PyStr("a")
                [] key = "tags" -> PyList(<<PyStr("x"), PyStr("y")>>)])
ExampleNextgen ==
    PyDict([key \in {"id", "tags", "extra"} |->
              CASE key = "id" -> PyInt(1)
                [] key = "tags" -> PyList(<<PyStr("x")>>)
                [] key = "extra" -> PyBool(TRUE)])

DiffValues ==
    Scalars
    \cup {PyList(s) : s \in SeqsUpTo(DiffElems, MaxArr)}
    \cup {PyDict(f) : f \in DictsOver(Keys, DiffFields)}
    \cup {ExampleLegacy, ExampleNextgen}

\* the path argument: the default "" of the top-level call, or a parent path
Paths == {"", "data"}

\* items of the example lists handed to extract_common_list_structure
InferElems ==
    {PyInt(1), PyStr("x"), None,
     EmptyDict, Dict1("a", PyInt(1)), Dict1("a", PyStr("x")),
     PyDict([key \in {"a", "b"} |-> PyInt(1)]),
     Dict1("a", Dict1("b", PyInt(1))), Dict1("a", PyList(<<PyInt(1)>>)),
     EmptyList, PyList(<<PyInt(1)>>), PyList(<<PyStr("x")>>)}

HashSeeds == 0..MaxSeed

(***************************************************************************)
(* The differ as a state machine: one call of deep_compare_json, as made   *)
(* on two bodies (lines 298, 329)                                          *)
(***************************************************************************)
Init ==
    /\ pc = "start"
    /\ hashSeed \in HashSeeds
    /\ obj1 \in DiffValues
    /\ obj2 \in DiffValues
    /\ path \in Paths
    /\ differences = <<>>
    /\ InferIdle /\ HeaderIdle /\ PairIdle /\ ApiIdle /\ StructuresIdle /\ ToolsIdle

DeepCompareJson ==
    /\ pc = "start"
    /\ IF DiffRaises(obj1, obj2, hashSeed)
       THEN pc' = "raised" /\ differences' = differences
       ELSE /\ pc' = "done"
            /\ differences' = deep_compare_json(obj1, obj2, path, hashSeed)
    /\ UNCHANGED <<hashSeed, obj1, obj2, path, inferVars, headerVars, pairVars,
                   apiVars, structures,
                   toolVars>>

Next == DeepCompareJson

Spec == Init /\ [][Next]_vars

(***************************************************************************)
(* Schema inference as a state machine: one call of                        *)
(* extract_common_list_structure                                           *)
(***************************************************************************)
InitInfer ==
    /\ pc = "start"
    /\ hashSeed \in HashSeeds
    /\ items \in SeqsUpTo(InferElems, MaxLen)
    /\ common_structure = None
    /\ DifferIdle /\ HeaderIdle /\ PairIdle /\ ApiIdle /\ StructuresIdle /\ ToolsIdle

ExtractCommonListStructure ==
    /\ pc = "start"
    /\ IF ExtractRaises(items, hashSeed)
       THEN pc' = "raised" /\ common_structure' = common_structure
       ELSE /\ pc' = "done"
            /\ common_structure' = extract_common_list_structure(items, hashSeed)
    /\ UNCHANGED <<hashSeed, items, differVars, headerVars, pairVars, apiVars,
                   structures,
                   toolVars>>

NextInfer == ExtractCommonListStructure

SpecInfer == InitInfer /\ [][NextInfer]_vars

(***************************************************************************)
(* Either function called once                                             *)
(***************************************************************************)
InitTotal == Init \/ InitInfer

NextTotal ==
    \/ InferIdle /\ DeepCompareJson
    \/ DifferIdle /\ ExtractCommonListStructure

SpecTotal == InitTotal /\ [][NextTotal]_vars

(***************************************************************************)
(* Helpers of the properties                                               *)
(***************************************************************************)
\* the JSON type of a value parsed by json.loads (spec section 3)
JsonTag(x) ==
    CASE x.t = "NoneType" -> "null"
      [] x.t = "bool" -> "boolean"
      [] x.t \in {"int", "float"} -> "number"
      [] x.t = "str" -> "string"
      [] x.t = "list" -> "array"
      [] x.t = "dict" -> "object"

\* the records of a result, as a multiset (the order of a result follows the
\* iteration order of a set and is not part of any property)
BagOfSeq(s) ==
    [x \in {s[i] : i \in DOMAIN s} |-> Cardinality({i \in DOMAIN s : s[i] = x})]

\* path suffixes of records at or below a node, two levels deep
OneStep == {"[*]"} \cup {"." \o k : k \in Keys}
Suffixes == {""} \cup OneStep \cup {s1 \o s2 : s1 \in OneStep, s2 \in OneStep}
AtOrBelow(q, p) == q \in {p \o s : s \in Suffixes}

\* the majority-typed items of a list, flattened one level
RECURSIVE PoolOf(_, _)
PoolOf(seq, tp) ==
    IF Len(seq) = 0 THEN <<>>
    ELSE (IF Head(seq).t = tp THEN Head(seq).v ELSE <<>>) \o PoolOf(Tail(seq), tp)

\* the multiset deep_compare_json is to return for two objects, key by key
RECURSIVE ObjectDiffBag(_, _, _, _, _)
ObjectDiffBag(K, a, b, p, h) ==
    IF K = {} THEN EmptyBag
    ELSE
      LET k == CHOOSE x \in K : TRUE
          kp == IF p = "" THEN k ELSE p \o "." \o k
          here ==
            IF k \notin DOMAIN a.v
            THEN SetToBag({[type |-> "added", path |-> kp, nextgen_value |-> b.v[k]]})
            ELSE IF k \notin DOMAIN b.v
            THEN SetToBag({[type |-> "removed", path |-> kp, legacy_value |-> a.v[k]]})
            ELSE BagOfSeq(deep_compare_json(a.v[k], b.v[k], kp, h))
      IN here (+) ObjectDiffBag(K \ {k}, a, b, p, h)

Compared == pc = "done" /\ items = <<>>
Inferred == pc = "done" /\ Len(items) > 0
BothLists == obj1.t = "list" /\ obj2.t = "list"
BothDicts == obj1.t = "dict" /\ obj2.t = "dict"

(***************************************************************************)
(* Properties of deep_compare_json, checked under Spec                     *)
(***************************************************************************)
\* C1: reflexivity: for every JSON value v, nested and heterogeneous arrays
\* included, deep_compare_json(v, v, path) is the empty list.
C1_Reflexive == (Compared /\ obj1 = obj2) => differences = <<>>

C1_Witness ==
    /\ Compared
    /\ obj1 = obj2
    /\ obj1.t = "list"
    /\ Len(obj1.v) = 2
    /\ obj1.v[1].t # obj1.v[2].t
    /\ "dict" \in {obj1.v[1].t, obj1.v[2].t}

\* C2: for two non-empty arrays a difference of the inferred element types
\* (majority element type number against string, or a kept field inferred as
\* number on one side and string on the other) yields at least one record at
\* or below path + "[*]".
C2_ElementTypeDifferenceReported ==
    (Compared /\ BothLists /\ Len(obj1.v) > 0 /\ Len(obj2.v) > 0) =>
      LET shape1 == extract_common_list_structure(obj1.v, hashSeed)
          shape2 == extract_common_list_structure(obj2.v, hashSeed)
          numberTags == {PyStr("int"), PyStr("float")}
          reported == \E i \in DOMAIN differences :
                        AtOrBelow(differences[i].path,
                                  IF path = "" THEN "[*]" ELSE path \o "[*]")
      IN /\ (shape1 \in numberTags /\ shape2 = PyStr("str")) => reported
         /\ (/\ shape1.t = "dict"
             /\ shape2.t = "dict"
             /\ \E k \in DOMAIN shape1.v \cap DOMAIN shape2.v :
                   shape1.v[k] \in numberTags /\ shape2.v[k] = PyStr("str"))
            => reported

\* C3: when the type tags of a and b differ the result is exactly one
\* type_mismatch record at path ("root" for the empty path) with both type
\* tags and both raw values; diff({}, [], "") is one type_mismatch at "root".
C3_TypeMismatchOnly ==
    (Compared /\ JsonTag(obj1) # JsonTag(obj2)) =>
       differences = <<[type |-> "type_mismatch",
                        path |-> IF path = "" THEN "root" ELSE path,
                        legacy |-> obj1.t, nextgen |-> obj2.t,
                        legacy_value |-> obj1, nextgen_value |-> obj2]>>

C3_Witness ==
    /\ Compared
    /\ obj1 = EmptyDict
    /\ obj2 = EmptyList
    /\ path = ""
    /\ Len(differences) = 1
    /\ differences[1].type = "type_mismatch"
    /\ differences[1].path = "root"

\* C4: for two objects the result holds, over the union of the keys, one
\* 'added' with b[k] per key only in b, one 'removed' with a[k] per key only in
\* a, the records of the recursive diff per shared key, and nothing else; the
\* bodies of spec section 8 give 'removed' at "name" and 'added' at "extra".
C4_ObjectDiff ==
    (Compared /\ BothDicts) =>
      /\ BagOfSeq(differences)
           = ObjectDiffBag(DOMAIN obj1.v \cup DOMAIN obj2.v, obj1, obj2, path, hashSeed)
      /\ (obj1 = ExampleLegacy /\ obj2 = ExampleNextgen /\ path = "") =>
            BagOfSeq(differences)
              = SetToBag({[type |-> "removed", path |-> "name",
                           legacy_value |-> PyStr("a")],
                          [type |-> "added", path |-> "extra",
                           nextgen_value |-> PyBool(TRUE)]})

C4_Witness ==
    /\ Compared
    /\ obj1 = ExampleLegacy
    /\ obj2 = ExampleNextgen
    /\ path = ""
    /\ Len(differences) = 2

\* C5: two primitives of the same JSON type (null, boolean, string, number,
\* whole or fractional) give the empty list.
C5_SameJsonTypeNoRecord ==
    (/\ Compared
     /\ JsonTag(obj1) = JsonTag(obj2)
     /\ JsonTag(obj1) \in {"null", "boolean", "number", "string"})
    => differences = <<>>

\* C6: two non-empty arrays with equal inferred common shapes give no record,
\* whatever their lengths.
C6_LengthIgnored ==
    (/\ Compared
     /\ BothLists
     /\ Len(obj1.v) > 0
     /\ Len(obj2.v) > 0
     /\ extract_common_list_structure(obj1.v, hashSeed)
          = extract_common_list_structure(obj2.v, hashSeed))
    => differences = <<>>

C6_Witness ==
    /\ Compared
    /\ BothLists
    /\ Len(obj1.v) > 0
    /\ Len(obj2.v) > Len(obj1.v)
    /\ extract_common_list_structure(obj1.v, hashSeed)
         = extract_common_list_structure(obj2.v, hashSeed)
    /\ differences = <<>>

\* C7: an empty array against a non-empty one gives exactly one 'added' at
\* path + "[*]" with the common shape of b; a non-empty one against an empty one
\* exactly one 'removed' with the common shape of a; two empty arrays nothing.
C7_EmptyAgainstNonEmpty ==
    (Compared /\ BothLists) =>
      LET at == IF path = "" THEN "[*]" ELSE path \o "[*]"
      IN /\ (Len(obj1.v) = 0 /\ Len(obj2.v) > 0) =>
              differences = <<[type |-> "added", path |-> at,
                 nextgen_value |-> extract_common_list_structure(obj2.v, hashSeed)]>>
         /\ (Len(obj1.v) > 0 /\ Len(obj2.v) = 0) =>
              differences = <<[type |-> "removed", path |-> at,
                 legacy_value |-> extract_common_list_structure(obj1.v, hashSeed)]>>
         /\ (Len(obj1.v) = 0 /\ Len(obj2.v) = 0) => differences = <<>>

C7_Witness ==
    /\ Compared
    /\ BothLists
    /\ Len(obj1.v) = 0
    /\ Len(obj2.v) = 2
    /\ path = "data"
    /\ Len(differences) = 1
    /\ differences[1].type = "added"
    /\ differences[1].path = "data[*]"

(***************************************************************************)
(* Properties of extract_common_list_structure, checked under SpecInfer    *)
(***************************************************************************)
\* C8: when the majority type is dict, a key is in the inferred shape if and
\* only if it occurs in strictly more than half of the dict items; the other
\* items count on neither side.
C8_StrictMajorityKeys ==
    (Inferred /\ MostCommonType(items) = "dict") =>
      LET dicts == {i \in DOMAIN items : items[i].t = "dict"}
          having(k) == {i \in dicts : k \in DOMAIN items[i].v}
          seen == UNION {DOMAIN items[i].v : i \in dicts}
      IN /\ common_structure.t = "dict"
         /\ DOMAIN common_structure.v \subseteq seen
         /\ \A k \in seen :
              k \in DOMAIN common_structure.v
                <=> 2 * Cardinality(having(k)) > Cardinality(dicts)

C8_Witness ==
    /\ Inferred
    /\ Len(items) = 3
    /\ \A i \in DOMAIN items : items[i].t = "dict"
    /\ Cardinality({i \in DOMAIN items : "a" \in DOMAIN items[i].v}) = 2
    /\ Cardinality({i \in DOMAIN items : "b" \in DOMAIN items[i].v}) = 1
    /\ DOMAIN common_structure.v = {"a"}

\* C9: the inferred shape depends on the input list alone: whatever the
\* interpreter's hash state, the same list gives the same shape, ties included.
C9_SameShapeInEveryRun ==
    Inferred => \A h \in HashSeeds :
                   extract_common_list_structure(items, h) = common_structure

\* C10: with majority type list the result wraps the shape inferred from the
\* pool of the inner elements of all list items, or is the empty list shape
\* when the pool is empty; with a primitive majority type it is that type's tag.
C10_ListAndPrimitiveMajority ==
    Inferred =>
      LET m == MostCommonType(items)
          pool == PoolOf(items, "list")
      IN /\ m = "list" =>
              common_structure
                = IF Len(pool) = 0 THEN EmptyList
                  ELSE PyList(<<extract_common_list_structure(pool, hashSeed)>>)
         /\ m \notin {"list", "dict"} => common_structure = PyStr(m)

C10_Witness ==
    /\ Inferred
    /\ Len(items) = 3
    /\ items[1].t = "list"
    /\ items[2].t = "list"
    /\ items[3].t = "int"
    /\ Len(items[1].v) = 1
    /\ Len(items[2].v) = 1
    /\ items[1].v # items[2].v
    /\ common_structure.t = "list"
    /\ Len(common_structure.v) = 1

(***************************************************************************)
(* Python str, for the header values: a string is the sequence of its      *)
(* characters, so that split, strip, lower and startswith are computed     *)
(***************************************************************************)
UpperCase ==
    <<"A", "B", "C", "D", "E", "F", "G", "H", "I", "J", "K", "L", "M", "N",
      "O", "P", "Q", "R", "S", "T", "U", "V", "W", "X", "Y", "Z">>
LowerCase ==
    <<"a", "b", "c", "d", "e", "f", "g", "h", "i", "j", "k", "l", "m", "n",
      "o", "p", "q", "r", "s", "t", "u", "v", "w", "x", "y", "z">>

\* c.lower() of one character
CharLower(c) ==
    IF \E i \in 1..Len(UpperCase) : UpperCase[i] = c
    THEN LowerCase[CHOOSE i \in 1..Len(UpperCase) : UpperCase[i] = c]
    ELSE c

\* s.lower()
StrLower(s) == [i \in 1..Len(s) |-> CharLower(s[i])]

\* the whitespace str.strip() removes, as far as header values hold it
IsSpace(c) == c \in {" ", "\t"}

\* s.strip()
RECURSIVE StrStrip(_)
StrStrip(s) ==
    IF Len(s) = 0 THEN s
    ELSE IF IsSpace(s[1]) THEN StrStrip(Tail(s))
    ELSE IF IsSpace(s[Len(s)]) THEN StrStrip(SubSeq(s, 1, Len(s) - 1))
    ELSE s

\* s.split(sep) for a one-character separator
RECURSIVE StrSplit(_, _)
StrSplit(s, sep) ==
    IF \A i \in 1..Len(s) : s[i] # sep THEN <<s>>
    ELSE LET i == CHOOSE i \in 1..Len(s) :
                     s[i] = sep /\ \A j \in 1..(i - 1) : s[j] # sep
         IN <<SubSeq(s, 1, i - 1)>> \o StrSplit(SubSeq(s, i + 1, Len(s)), sep)

\* s.startswith(prefix)
StartsWith(s, prefix) ==
    Len(s) >= Len(prefix) /\ SubSeq(s, 1, Len(prefix)) = prefix

\* sub in s
StrContains(s, sub) ==
    \E i \in 1..(Len(s) - Len(sub) + 1) : SubSeq(s, i, i + Len(sub) - 1) = sub

\* sep.join(parts)
RECURSIVE StrJoin(_, _)
StrJoin(parts, sep) ==
    IF Len(parts) = 0 THEN <<>>
    ELSE IF Len(parts) = 1 THEN parts[1]
    ELSE parts[1] \o sep \o StrJoin(Tail(parts), sep)

\* the literals of lines 221, 237, 225/241 and 269
FilenameEq ==
    <<"f", "i", "l", "e", "n", "a", "m", "e", "=">>
FilenameStarEq ==
    <<"f", "i", "l", "e", "n", "a", "m", "e", "*", "=">>
BoundaryEq ==
    <<"b", "o", "u", "n", "d", "a", "r", "y", "=">>
MultipartFormData ==
    <<"m", "u", "l", "t", "i", "p", "a", "r", "t", "/", "f", "o", "r", "m",
      "-", "d", "a", "t", "a">>
SemicolonSpace ==
    <<";", " ">>

\* key.lower() of a header name (lines 260, 266)
HeaderNameLower(key) ==
    CASE key = "Content-Type" -> "content-type"
      [] key = "Content-Disposition" -> "content-disposition"
      [] OTHER -> key

(***************************************************************************)
(* compare_headers (lines 212-284)                                         *)
(***************************************************************************)
\* [p.strip() for p in value.split(';')] (lines 217, 233)
StrippedParts(value) ==
    LET parts == StrSplit(value, ";")
    IN [i \in 1..Len(parts) |-> StrStrip(parts[i])]

\* lines 212-225
\* faulty variant: the prefixes are matched without lower()
strip_content_disposition_filename_cased(value) ==
    StrJoin(SelectSeq(StrippedParts(value),
                      LAMBDA part :
                        /\ ~StartsWith(part, FilenameEq)
                        /\ ~StartsWith(part, FilenameStarEq)
                        /\ Len(part) > 0),
            SemicolonSpace)
\* the code
strip_content_disposition_filename(value) ==
    StrJoin(SelectSeq(StrippedParts(value),
                      LAMBDA part :
                        /\ ~StartsWith(StrLower(part), FilenameEq)
                        /\ ~StartsWith(StrLower(part), FilenameStarEq)
                        /\ Len(part) > 0),
            SemicolonSpace)

\* lines 228-241
\* faulty variant: the prefix is matched without lower()
strip_multipart_boundary_cased(value) ==
    StrJoin(SelectSeq(StrippedParts(value),
                      LAMBDA part :
                        ~StartsWith(part, BoundaryEq) /\ Len(part) > 0),
            SemicolonSpace)
\* the code
strip_multipart_boundary(value) ==
    StrJoin(SelectSeq(StrippedParts(value),
                      LAMBDA part :
                        ~StartsWith(StrLower(part), BoundaryEq) /\ Len(part) > 0),
            SemicolonSpace)

\* whether the loop body of lines 257-277 reaches line 274 for a key of both
\* dicts
\* faulty variant: the test of line 257 is left out
HeaderModifiedEvenEqual(key, value1, value2, ignore_content_disposition_filename) ==
    /\ TRUE
    /\ ~(/\ ignore_content_disposition_filename
         /\ HeaderNameLower(key) = "content-disposition"
         /\ strip_content_disposition_filename(value1)
              = strip_content_disposition_filename(value2))
    /\ ~(/\ HeaderNameLower(key) = "content-type"
         /\ StrContains(StrLower(value1), MultipartFormData)
         /\ StrContains(StrLower(value2), MultipartFormData)
         /\ strip_multipart_boundary(value1) = strip_multipart_boundary(value2))
\* the code
HeaderModified(key, value1, value2, ignore_content_disposition_filename) ==
    /\ value1 # value2
    /\ ~(/\ ignore_content_disposition_filename
         /\ HeaderNameLower(key) = "content-disposition"
         /\ strip_content_disposition_filename(value1)
              = strip_content_disposition_filename(value2))
    /\ ~(/\ HeaderNameLower(key) = "content-type"
         /\ StrContains(StrLower(value1), MultipartFormData)
         /\ StrContains(StrLower(value2), MultipartFormData)
         /\ strip_multipart_boundary(value1) = strip_multipart_boundary(value2))

\* line 283
\* faulty variant: the modified keys are left out of the test
HeadersIdenticalNoModified(added, removed, modified) ==
    DOMAIN added = {} /\ DOMAIN removed = {}
\* the code
HeadersIdentical(added, removed, modified) ==
    DOMAIN added = {} /\ DOMAIN removed = {} /\ DOMAIN modified = {}

compare_headers(h1, h2, ignore_content_disposition_filename) ==
    LET all_keys == DOMAIN h1 \cup DOMAIN h2
        added == [k \in {k \in all_keys : k \notin DOMAIN h1} |-> h2[k]]
        removed == [k \in {k \in all_keys : k \notin DOMAIN h2} |-> h1[k]]
        modified ==
          [k \in {k \in DOMAIN h1 \cap DOMAIN h2 :
                    HeaderModified(k, h1[k], h2[k],
                                   ignore_content_disposition_filename)}
             |-> [legacy |-> h1[k], nextgen |-> h2[k]]]
    IN [added |-> added, removed |-> removed, modified |-> modified,
        identical |-> HeadersIdentical(added, removed, modified)]

(***************************************************************************)
(* Header inputs                                                           *)
(***************************************************************************)
Attachment ==
    <<"a", "t", "t", "a", "c", "h", "m", "e", "n", "t">>
Inline ==
    <<"i", "n", "l", "i", "n", "e">>
FilenameA ==
    <<";", " ", "f", "i", "l", "e", "n", "a", "m", "e", "=", "a">>
FilenameB ==
    <<";", " ", "f", "i", "l", "e", "n", "a", "m", "e", "=", "b">>
FilenameStarC ==
    <<";", "F", "i", "l", "e", "N", "a", "m", "e", "*", "=", "c">>
BoundaryX ==
    <<";", " ", "b", "o", "u", "n", "d", "a", "r", "y", "=", "X">>
BoundaryY ==
    <<";", " ", "b", "o", "u", "n", "d", "a", "r", "y", "=", "Y">>
BoundaryUpperZ ==
    <<";", "B", "o", "u", "n", "d", "a", "r", "y", "=", "Z">>
CharsetU ==
    <<";", " ", "c", "h", "a", "r", "s", "e", "t", "=", "u">>
MultipartUpper ==
    <<"M", "u", "l", "t", "i", "p", "a", "r", "t", "/", "F", "o", "r", "m",
      "-", "D", "a", "t", "a">>
ApplicationJson ==
    <<"a", "p", "p", "l", "i", "c", "a", "t", "i", "o", "n", "/", "j", "s",
      "o", "n">>

ContentDispositionValues ==
    {Attachment, Attachment \o FilenameA, Attachment \o FilenameB,
     Attachment \o FilenameStarC, Inline \o FilenameA}

ContentTypeValues ==
    {ApplicationJson,
     MultipartFormData \o BoundaryX, MultipartFormData \o BoundaryY,
     MultipartFormData \o BoundaryUpperZ,
     MultipartUpper \o BoundaryX,
     MultipartFormData \o CharsetU \o BoundaryX}

\* a header name that reached the engine without being lower-cased
CapitalContentTypeValues ==
    {MultipartFormData \o BoundaryX, MultipartFormData \o BoundaryY}

\* the dicts with the given values under the given names, each name optional
HeaderDicts ==
    {f \in DictsOver({"content-disposition", "content-type", "Content-Type"},
                     ContentDispositionValues \cup ContentTypeValues) :
       /\ "content-disposition" \in DOMAIN f
            => f["content-disposition"] \in ContentDispositionValues
       /\ "content-type" \in DOMAIN f => f["content-type"] \in ContentTypeValues
       /\ "Content-Type" \in DOMAIN f
            => f["Content-Type"] \in CapitalContentTypeValues}

(***************************************************************************)
(* compare_headers as a state machine: one call                            *)
(***************************************************************************)
InitHeaders ==
    /\ pc = "start"
    /\ hashSeed = 0
    /\ headers1 \in HeaderDicts
    /\ headers2 \in HeaderDicts
    /\ ignore_flag \in BOOLEAN
    /\ header_diff = None
    /\ DifferIdle /\ InferIdle /\ PairIdle /\ ApiIdle /\ StructuresIdle /\ ToolsIdle

CompareHeaders ==
    /\ pc = "start"
    /\ header_diff' = compare_headers(headers1, headers2, ignore_flag)
    /\ pc' = "done"
    /\ UNCHANGED <<hashSeed, headers1, headers2, ignore_flag, differVars, inferVars,
                   pairVars, apiVars, structures,
                   toolVars>>

NextHeaders == CompareHeaders

SpecHeaders == InitHeaders /\ [][NextHeaders]_vars

(***************************************************************************)
(* Properties of compare_headers                                           *)
(***************************************************************************)
HeadersCompared == pc = "done" /\ header_diff # None

\* the keys of both header dicts whose values differ
DifferingKeys ==
    {k \in DOMAIN headers1 \cap DOMAIN headers2 : headers1[k] # headers2[k]}

\* the value without the segments that satisfy Dropped: split on ';', each
\* segment trimmed, empty segments left out, the rest joined with '; '
SegmentsWithout(value, Dropped(_)) ==
    LET segments == StrSplit(value, ";")
        Kept(i) == ~Dropped(StrStrip(segments[i])) /\ StrStrip(segments[i]) # <<>>
        RECURSIVE JoinFrom(_)
        JoinFrom(i) ==
            IF i > Len(segments) THEN <<>>
            ELSE IF ~Kept(i) THEN JoinFrom(i + 1)
            ELSE IF \E j \in (i + 1)..Len(segments) : Kept(j)
                 THEN StrStrip(segments[i]) \o SemicolonSpace \o JoinFrom(i + 1)
                 ELSE StrStrip(segments[i])
    IN JoinFrom(1)

IsFilenameSegment(segment) ==
    \/ StartsWith(StrLower(segment), FilenameEq)
    \/ StartsWith(StrLower(segment), FilenameStarEq)

IsBoundarySegment(segment) == StartsWith(StrLower(segment), BoundaryEq)

IsBoundarySegmentCased(segment) == StartsWith(segment, BoundaryEq)

IsMultipart(value) == StrContains(StrLower(value), MultipartFormData)

ModifiedWithRawValues(k) ==
    /\ k \in DOMAIN header_diff.modified
    /\ header_diff.modified[k] = [legacy |-> headers1[k], nextgen |-> headers2[k]]

\* C12: compare_headers classifies the keys exactly: added is the map of the
\* keys only in the second dict with their values there, removed the map of the
\* keys only in the first dict with their values there, modified holds only keys
\* of both dicts, and identical is true exactly when the three maps are empty.
C12_HeaderClassification ==
    HeadersCompared =>
      /\ DOMAIN header_diff.added = DOMAIN headers2 \ DOMAIN headers1
      /\ \A k \in DOMAIN header_diff.added : header_diff.added[k] = headers2[k]
      /\ DOMAIN header_diff.removed = DOMAIN headers1 \ DOMAIN headers2
      /\ \A k \in DOMAIN header_diff.removed : header_diff.removed[k] = headers1[k]
      /\ DOMAIN header_diff.modified \subseteq DOMAIN headers1 \cap DOMAIN headers2
      /\ header_diff.identical
           <=> (/\ DOMAIN header_diff.added = {}
                /\ DOMAIN header_diff.removed = {}
                /\ DOMAIN header_diff.modified = {})

\* a call where only the modified map is non-empty
C12_Witness ==
    /\ HeadersCompared
    /\ DOMAIN header_diff.added = {}
    /\ DOMAIN header_diff.removed = {}
    /\ DOMAIN header_diff.modified # {}
    /\ ~header_diff.identical

\* C13: with the flag true, a content-disposition key whose two differing
\* values are equal once the segments starting, in any letter case, with
\* filename= or filename*= are dropped is not in modified; with the flag false
\* the same key is in modified with both raw values and identical is false.
C13_ContentDispositionException ==
    HeadersCompared =>
      \A k \in DifferingKeys :
        (/\ HeaderNameLower(k) = "content-disposition"
         /\ SegmentsWithout(headers1[k], IsFilenameSegment)
              = SegmentsWithout(headers2[k], IsFilenameSegment))
        => IF ignore_flag
           THEN k \notin DOMAIN header_diff.modified
           ELSE ModifiedWithRawValues(k) /\ ~header_diff.identical

\* the flag is on and the values differ in a FileName*= segment only
C13_Witness ==
    /\ HeadersCompared
    /\ ignore_flag
    /\ "content-disposition" \in DifferingKeys
    /\ headers1["content-disposition"] = Attachment \o FilenameStarC
    /\ headers2["content-disposition"] = Attachment \o FilenameA
    /\ header_diff.identical

\* C14 as stated: whatever the flag, a content-type key whose two differing
\* values both contain multipart/form-data and are equal once the segments
\* starting with boundary= (in exactly that letter case) are dropped is not in
\* modified; otherwise the key is in modified with both raw values.
C14_BoundaryExceptionCased ==
    HeadersCompared =>
      \A k \in DifferingKeys :
        HeaderNameLower(k) = "content-type" =>
          IF /\ IsMultipart(headers1[k])
             /\ IsMultipart(headers2[k])
             /\ SegmentsWithout(headers1[k], IsBoundarySegmentCased)
                  = SegmentsWithout(headers2[k], IsBoundarySegmentCased)
          THEN k \notin DOMAIN header_diff.modified
          ELSE ModifiedWithRawValues(k)

\* C14 amended: the same with the segments starting with boundary= in any
\* letter case dropped.
C14_BoundaryException ==
    HeadersCompared =>
      \A k \in DifferingKeys :
        HeaderNameLower(k) = "content-type" =>
          IF /\ IsMultipart(headers1[k])
             /\ IsMultipart(headers2[k])
             /\ SegmentsWithout(headers1[k], IsBoundarySegment)
                  = SegmentsWithout(headers2[k], IsBoundarySegment)
          THEN k \notin DOMAIN header_diff.modified
          ELSE ModifiedWithRawValues(k)

\* the flag is off and the two values differ in the boundary only, one of them
\* written Boundary=
C14_Witness ==
    /\ HeadersCompared
    /\ ~ignore_flag
    /\ "content-type" \in DifferingKeys
    /\ headers1["content-type"] = MultipartFormData \o BoundaryUpperZ
    /\ headers2["content-type"] = MultipartFormData \o BoundaryX
    /\ header_diff.identical

(***************************************************************************)
(* compare_request_structures and compare_response_structures              *)
(* (lines 287-335), applied to one pair of parsed entries                  *)
(***************************************************************************)
\* bool(x) of a Python value, as the `or` of lines 297 and 328 takes it
Truthy(x) ==
    CASE x.t = "NoneType" -> FALSE
      [] x.t = "bool" -> x.v
      [] x.t = "int" -> x.v # 0
      [] x.t = "float" -> x.v # 0
      [] x.t = "str" -> x.v # ""
      [] x.t = "dict" -> DOMAIN x.v # {}
      [] x.t = "list" -> Len(x.v) > 0

\* lines 296-298 and 327-329: None, or the list deep_compare_json returns
BodyDiff(body1, body2, h) ==
    IF Truthy(body1) \/ Truthy(body2)
    THEN PyList(deep_compare_json(body1, body2, "", h))
    ELSE None

\* urlparse(url).path (src/har_parser.py, lines 47-51); a URL is the record of
\* the parts urlparse finds in it
normalize_url(url) == url.path

\* the api_entry dict of parse_har_file (src/har_parser.py, lines 150-164)
ApiEntry(url, method, req_headers, req_body, status, resp_headers, resp_body) ==
    [original_url |-> url,
     normalized_path |-> normalize_url(url),
     method |-> method,
     request |-> [headers |-> req_headers, body |-> req_body],
     response |-> [status |-> status, headers |-> resp_headers, body |-> resp_body]]

\* lines 287-304
\* faulty variant: the filename exception is on for request headers
compare_request_structures_ignoring(entry1, entry2, h) ==
    [method_identical |-> entry1.method = entry2.method,
     headers |-> compare_headers(entry1.request.headers, entry2.request.headers,
                                 TRUE),
     body |-> BodyDiff(entry1.request.body, entry2.request.body, h)]
\* the code
compare_request_structures(entry1, entry2, h) ==
    [method_identical |-> entry1.method = entry2.method,
     headers |-> compare_headers(entry1.request.headers, entry2.request.headers,
                                 FALSE),
     body |-> BodyDiff(entry1.request.body, entry2.request.body, h)]

\* lines 307-335
compare_response_structures(entry1, entry2, h) ==
    [status |-> [legacy |-> entry1.response.status,
                 nextgen |-> entry2.response.status,
                 identical |-> entry1.response.status = entry2.response.status],
     headers |-> compare_headers(entry1.response.headers,
                                 entry2.response.headers, TRUE),
     body |-> BodyDiff(entry1.response.body, entry2.response.body, h)]

(***************************************************************************)
(* Inputs of one pair                                                      *)
(***************************************************************************)
\* bodies as extract_request_body / extract_response_body give them: None when
\* there is no text, else what json.loads returns ("{}" and "[]" included)
PairBodies == {None, EmptyDict, EmptyList, Dict1("a", PyInt(1)), PyList(<<PyInt(1)>>)}

ResponseBodies == {None, EmptyDict, Dict1("a", PyInt(1))}

PairHeaders ==
    {f \in HeaderDicts :
       /\ DOMAIN f \subseteq {"content-disposition"}
       /\ \A k \in DOMAIN f : f[k] \in {Attachment \o FilenameA, Attachment \o FilenameB}}

UsersUrl == [origin |-> "https://legacy.example", path |-> "/users", query |-> ""]

LegacyPairEntries ==
    {ApiEntry(UsersUrl, "GET", rh, rb, 200, sh, sb) :
       rh \in PairHeaders, rb \in PairBodies, sh \in PairHeaders, sb \in ResponseBodies}

NextgenPairEntries ==
    {ApiEntry(UsersUrl, m, rh, rb, st, sh, sb) :
       m \in {"GET", "POST"}, rh \in PairHeaders, rb \in PairBodies,
       st \in {200, 404}, sh \in PairHeaders, sb \in ResponseBodies}

(***************************************************************************)
(* The comparison of one pair as a state machine (lines 367-371: the two   *)
(* calls made for a pair of representatives)                               *)
(***************************************************************************)
InitPair ==
    /\ pc = "start"
    /\ hashSeed = 0
    /\ legacy_entry \in LegacyPairEntries
    /\ nextgen_entry \in NextgenPairEntries
    /\ request_diff = None
    /\ response_diff = None
    /\ DifferIdle /\ InferIdle /\ HeaderIdle /\ ApiIdle /\ StructuresIdle /\ ToolsIdle

ComparePair ==
    /\ pc = "start"
    /\ request_diff' = compare_request_structures(legacy_entry, nextgen_entry, hashSeed)
    /\ response_diff' = compare_response_structures(legacy_entry, nextgen_entry, hashSeed)
    /\ pc' = "done"
    /\ UNCHANGED <<hashSeed, legacy_entry, nextgen_entry, differVars, inferVars,
                   headerVars, apiVars, structures,
                   toolVars>>

NextPair == ComparePair

SpecPair == InitPair /\ [][NextPair]_vars

(***************************************************************************)
(* Properties of the pair comparison                                       *)
(***************************************************************************)
PairCompared == pc = "done" /\ request_diff # None /\ response_diff # None

\* whether the two header dicts hold content-disposition values that differ in
\* their filename segments only
DiffersInFilenameOnly(h1, h2) ==
    /\ "content-disposition" \in DOMAIN h1 \cap DOMAIN h2
    /\ h1["content-disposition"] # h2["content-disposition"]
    /\ SegmentsWithout(h1["content-disposition"], IsFilenameSegment)
         = SegmentsWithout(h2["content-disposition"], IsFilenameSegment)

\* C11: the request body diff, and likewise the response body diff, is None
\* exactly when both bodies are absent (None); a present body counts whatever
\* its value is, an empty object or an empty array included.
C11_BodyDiffWheneverPresent ==
    PairCompared =>
      /\ request_diff.body = None
           <=> (legacy_entry.request.body = None /\ nextgen_entry.request.body = None)
      /\ response_diff.body = None
           <=> (legacy_entry.response.body = None /\ nextgen_entry.response.body = None)

\* C15: for a pair whose content-disposition values differ in the filename
\* segment only, the key is in request.headers.modified when the values are
\* request headers and is not in response.headers.modified when they are
\* response headers.
C15_FlagOffForRequestsOnForResponses ==
    PairCompared =>
      /\ DiffersInFilenameOnly(legacy_entry.request.headers,
                               nextgen_entry.request.headers)
           => "content-disposition" \in DOMAIN request_diff.headers.modified
      /\ DiffersInFilenameOnly(legacy_entry.response.headers,
                               nextgen_entry.response.headers)
           => "content-disposition" \notin DOMAIN response_diff.headers.modified

\* the same two values on the request side and on the response side
C15_Witness ==
    /\ PairCompared
    /\ DiffersInFilenameOnly(legacy_entry.request.headers, nextgen_entry.request.headers)
    /\ legacy_entry.response.headers = legacy_entry.request.headers
    /\ nextgen_entry.response.headers = nextgen_entry.request.headers
    /\ ~request_diff.headers.identical
    /\ response_diff.headers.identical

(***************************************************************************)
(* compare_apis in path mode (src/comparison_engine.py, lines 249-322) on  *)
(* the two entry lists parse_har_file returns, with group_apis_by_endpoint *)
(* of src/har_parser.py (lines 174-190).  compare_request_structures and   *)
(* compare_response_structures of that file are the ones above, line for   *)
(* line; its deep_compare_json differs from the one above in the list      *)
(* branch only, and the bodies used here hold no list.                     *)
(***************************************************************************)
MaxEntries == 2

\* src/har_parser.py, line 186
\* faulty variant: the path alone
EndpointKeyPathOnly(entry) == entry.normalized_path
\* the code
EndpointKey(entry) == entry.method \o " " \o entry.normalized_path

\* src/har_parser.py, lines 174-190: each key with its entries in input order
group_apis_by_endpoint(api_entries) ==
    [key \in {EndpointKey(api_entries[i]) : i \in DOMAIN api_entries}
       |-> SelectSeq(api_entries, LAMBDA entry : EndpointKey(entry) = key)]

\* line 271
CommonEndpoints(legacy_grouped, nextgen_grouped) ==
    DOMAIN legacy_grouped \cap DOMAIN nextgen_grouped

\* line 272
\* faulty variant: every legacy key
LegacyOnlyAll(legacy_grouped, nextgen_grouped) == DOMAIN legacy_grouped
\* the code
LegacyOnly(legacy_grouped, nextgen_grouped) ==
    DOMAIN legacy_grouped \ DOMAIN nextgen_grouped

\* line 273
NextgenOnly(legacy_grouped, nextgen_grouped) ==
    DOMAIN nextgen_grouped \ DOMAIN legacy_grouped

\* lines 278-279: grouped[endpoint][0]
\* faulty variant: the last occurrence
RepresentativeLast(grouped, endpoint) == grouped[endpoint][Len(grouped[endpoint])]
\* the code
Representative(grouped, endpoint) == grouped[endpoint][1]

\* lines 294-299 and 304-309
\* faulty variant: the details of the last occurrence
OneSidedDetailsLast(grouped, endpoint) ==
    LET entry == grouped[endpoint][Len(grouped[endpoint])]
    IN [url |-> entry.original_url, method |-> entry.method,
        path |-> entry.normalized_path]
\* the code
OneSidedDetails(grouped, endpoint) ==
    LET entry == grouped[endpoint][1]
    IN [url |-> entry.original_url, method |-> entry.method,
        path |-> entry.normalized_path]

\* lines 281-289
EndpointComparison(legacy_rep, nextgen_rep, h) ==
    [request |-> compare_request_structures(legacy_rep, nextgen_rep, h),
     response |-> compare_response_structures(legacy_rep, nextgen_rep, h),
     legacy_url |-> legacy_rep.original_url,
     nextgen_url |-> nextgen_rep.original_url]

\* lines 264-322
compare_apis(entries1, entries2, h) ==
    LET legacy_grouped == group_apis_by_endpoint(entries1)
        nextgen_grouped == group_apis_by_endpoint(entries2)
        common_endpoints == CommonEndpoints(legacy_grouped, nextgen_grouped)
        legacy_only == LegacyOnly(legacy_grouped, nextgen_grouped)
        nextgen_only == NextgenOnly(legacy_grouped, nextgen_grouped)
    IN [summary |->
          [total_legacy_apis |-> Cardinality(DOMAIN legacy_grouped),
           total_nextgen_apis |-> Cardinality(DOMAIN nextgen_grouped),
           common_apis |-> Cardinality(common_endpoints),
           legacy_only |-> Cardinality(legacy_only),
           nextgen_only |-> Cardinality(nextgen_only)],
        common_endpoints |->
          [endpoint \in common_endpoints |->
             EndpointComparison(Representative(legacy_grouped, endpoint),
                                Representative(nextgen_grouped, endpoint), h)],
        legacy_only |->
          [endpoint \in legacy_only |-> OneSidedDetails(legacy_grouped, endpoint)],
        nextgen_only |->
          [endpoint \in nextgen_only |-> OneSidedDetails(nextgen_grouped, endpoint)]]

(***************************************************************************)
(* Entry lists                                                             *)
(***************************************************************************)
NoHeaders == [k \in {} |-> <<>>]

Url(path_, query) == [origin |-> "https://api.example", path |-> path_, query |-> query]

\* two exchanges each of GET /users and POST /users, told apart by query
\* string, body and status; one of GET /items; one of GET /Users
ApiEntries ==
    {ApiEntry(Url("/users", ""), "GET", NoHeaders, None, 200, NoHeaders,
              Dict1("a", PyInt(1))),
     ApiEntry(Url("/users", "?page=2"), "GET", NoHeaders, None, 404, NoHeaders,
              Dict1("a", PyStr("x"))),
     ApiEntry(Url("/users", ""), "POST", NoHeaders, Dict1("a", PyInt(1)), 200,
              NoHeaders, None),
     ApiEntry(Url("/users", "?dry=1"), "POST", NoHeaders, Dict1("b", PyInt(1)), 200,
              NoHeaders, EmptyDict),
     ApiEntry(Url("/items", ""), "GET", NoHeaders, None, 200, NoHeaders, None),
     ApiEntry(Url("/Users", ""), "GET", NoHeaders, None, 200, NoHeaders, None)}

EntryLists == SeqsUpTo(ApiEntries, MaxEntries)

(***************************************************************************)
(* compare_apis as a state machine: one call                               *)
(***************************************************************************)
InitApis ==
    /\ pc = "start"
    /\ hashSeed = 0
    /\ legacy_entries \in EntryLists
    /\ nextgen_entries \in EntryLists
    /\ report = None
    /\ DifferIdle /\ InferIdle /\ HeaderIdle /\ PairIdle /\ StructuresIdle /\ ToolsIdle

CompareApis ==
    /\ pc = "start"
    /\ report' = compare_apis(legacy_entries, nextgen_entries, hashSeed)
    /\ pc' = "done"
    /\ UNCHANGED <<hashSeed, legacy_entries, nextgen_entries, differVars, inferVars,
                   headerVars, pairVars, structures,
                   toolVars>>

NextApis == CompareApis

SpecApis == InitApis /\ [][NextApis]_vars

(***************************************************************************)
(* Properties of compare_apis                                              *)
(***************************************************************************)
ApisCompared == pc = "done" /\ report # None

KeyOf(entry) == entry.method \o " " \o entry.normalized_path

KeysOf(entries) == {KeyOf(entries[i]) : i \in DOMAIN entries}

IndicesOf(entries, key) == {i \in DOMAIN entries : KeyOf(entries[i]) = key}

\* the first entry with the key in input order
FirstWith(entries, key) ==
    entries[CHOOSE i \in IndicesOf(entries, key) :
              \A j \in IndicesOf(entries, key) : i <= j]

\* the entries that are the first of their key, in input order
RECURSIVE FirstOccurrences(_)
FirstOccurrences(entries) ==
    IF Len(entries) = 0 THEN <<>>
    ELSE LET front == SubSeq(entries, 1, Len(entries) - 1)
             last == entries[Len(entries)]
         IN IF KeyOf(last) \in KeysOf(front)
            THEN FirstOccurrences(front)
            ELSE Append(FirstOccurrences(front), last)

\* every bucket is the subsequence of the entries with its key
InInputOrder(grouped, entries) ==
    /\ DOMAIN grouped = KeysOf(entries)
    /\ \A key \in DOMAIN grouped :
         LET idx == IndicesOf(entries, key)
             Nth(j) == CHOOSE i \in idx : Cardinality({m \in idx : m <= i}) = j
         IN /\ Len(grouped[key]) = Cardinality(idx)
            /\ \A j \in 1..Len(grouped[key]) : grouped[key][j] = entries[Nth(j)]

\* C16: the keys of common_endpoints are exactly the keys of both lists, those
\* of legacy_only the legacy keys that are no nextgen keys and those of
\* nextgen_only the nextgen keys that are no legacy keys, keys compared as
\* strings.
C16_EndpointPartition ==
    ApisCompared =>
      /\ DOMAIN report.common_endpoints
           = KeysOf(legacy_entries) \cap KeysOf(nextgen_entries)
      /\ DOMAIN report.legacy_only
           = KeysOf(legacy_entries) \ KeysOf(nextgen_entries)
      /\ DOMAIN report.nextgen_only
           = KeysOf(nextgen_entries) \ KeysOf(legacy_entries)

\* legacy has GET /users only and nextgen is empty
C16_Witness ==
    /\ ApisCompared
    /\ KeysOf(legacy_entries) = {"GET /users"}
    /\ nextgen_entries = <<>>
    /\ DOMAIN report.legacy_only = {"GET /users"}
    /\ DOMAIN report.common_endpoints = {}
    /\ DOMAIN report.nextgen_only = {}

\* C17: grouping keeps the entries of each key in input order; for every
\* common key the compared pair, and the URLs reported, are those of the first
\* legacy and the first nextgen entry with the key; the report is the one of
\* the lists without the later entries of each key.
C17_FirstOccurrence ==
    ApisCompared =>
      /\ InInputOrder(group_apis_by_endpoint(legacy_entries), legacy_entries)
      /\ InInputOrder(group_apis_by_endpoint(nextgen_entries), nextgen_entries)
      /\ \A key \in DOMAIN report.common_endpoints :
           LET l == FirstWith(legacy_entries, key)
               n == FirstWith(nextgen_entries, key)
           IN report.common_endpoints[key]
                = [request |-> compare_request_structures(l, n, hashSeed),
                   response |-> compare_response_structures(l, n, hashSeed),
                   legacy_url |-> l.original_url,
                   nextgen_url |-> n.original_url]
      /\ report = compare_apis(FirstOccurrences(legacy_entries),
                               FirstOccurrences(nextgen_entries), hashSeed)

\* both lists hold the two GET /users exchanges, in opposite orders
C17_Witness ==
    /\ ApisCompared
    /\ Len(legacy_entries) = 2
    /\ Len(nextgen_entries) = 2
    /\ KeysOf(legacy_entries) = {"GET /users"}
    /\ KeysOf(nextgen_entries) = {"GET /users"}
    /\ legacy_entries[1] = nextgen_entries[2]
    /\ legacy_entries[2] = nextgen_entries[1]
    /\ legacy_entries[1].original_url.query = ""
    /\ legacy_entries[2].original_url.query = "?page=2"
    /\ report.common_endpoints["GET /users"].legacy_url.query = ""
    /\ report.common_endpoints["GET /users"].nextgen_url.query = "?page=2"
    /\ ~report.common_endpoints["GET /users"].response.status.identical

\* C18: the summary holds the numbers of distinct keys of each list and the
\* sizes of the three key sets, and every one-sided entry is exactly the url,
\* method and path of the first entry of that side with the key.
C18_SummaryAndOneSided ==
    ApisCompared =>
      /\ report.summary.total_legacy_apis = Cardinality(KeysOf(legacy_entries))
      /\ report.summary.total_nextgen_apis = Cardinality(KeysOf(nextgen_entries))
      /\ report.summary.common_apis = Cardinality(DOMAIN report.common_endpoints)
      /\ report.summary.legacy_only = Cardinality(DOMAIN report.legacy_only)
      /\ report.summary.nextgen_only = Cardinality(DOMAIN report.nextgen_only)
      /\ \A key \in DOMAIN report.legacy_only :
           LET first == FirstWith(legacy_entries, key)
           IN report.legacy_only[key]
                = [url |-> first.original_url, method |-> first.method,
                   path |-> first.normalized_path]
      /\ \A key \in DOMAIN report.nextgen_only :
           LET first == FirstWith(nextgen_entries, key)
           IN report.nextgen_only[key]
                = [url |-> first.original_url, method |-> first.method,
                   path |-> first.normalized_path]

\* legacy holds GET /users twice, the exchange with the query string first, and
\* nextgen holds another key
C18_Witness ==
    /\ ApisCompared
    /\ Len(legacy_entries) = 2
    /\ KeysOf(legacy_entries) = {"GET /users"}
    /\ legacy_entries[1].original_url.query = "?page=2"
    /\ legacy_entries[2].original_url.query = ""
    /\ KeysOf(nextgen_entries) = {"GET /items"}
    /\ report.summary.total_legacy_apis = 1
    /\ report.summary.legacy_only = 1
    /\ report.summary.nextgen_only = 1
    /\ report.legacy_only["GET /users"].url.query = "?page=2"

(***************************************************************************)
(* Totality of the differ                                                  *)
(***************************************************************************)
\* C19: deep_compare_json and extract_common_list_structure return a result
\* and never raise, whatever JSON values they get; a present body against an
\* absent one gives diff records.
C19_NeverRaises ==
    /\ pc # "raised"
    /\ (pc = "done" /\ InferIdle /\ ((obj1 = None) # (obj2 = None)))
         => Len(differences) > 0

\* an object with a null field against an absent body
C19_Witness ==
    /\ pc = "done"
    /\ InferIdle
    /\ TypeName(obj1) = "dict"
    /\ "a" \in DOMAIN obj1.v
    /\ obj1.v["a"] = None
    /\ obj2 = None
    /\ Len(differences) = 1

(***************************************************************************)
(* Type tags: extract_structure of the engine (lines 8-33) and             *)
(* APIComparator._get_structure / _has_structure_difference                *)
(* (src/compare_apis.py, lines 444-485)                                    *)
(***************************************************************************)
\* lines 8-33
RECURSIVE extract_structure(_)
extract_structure(obj) ==
    IF obj = None THEN PyStr("NoneType")
    ELSE IF TypeName(obj) = "dict"
    THEN PyDict([key \in DOMAIN obj.v |-> extract_structure(obj.v[key])])
    ELSE IF TypeName(obj) = "list"
    THEN (IF Len(obj.v) > 0 THEN PyList(<<extract_structure(obj.v[1])>>)
          ELSE EmptyList)
    ELSE PyStr(TypeName(obj))

\* isinstance(value, cls) for the classes tested in src/compare_apis.py; bool
\* is a subclass of int
IsInstance(value, cls) ==
    \/ TypeName(value) = cls
    \/ cls = "int" /\ TypeName(value) = "bool"

\* the keys of the model in the order sorted() gives them
SortedKeyOrder == <<"a", "b", "extra", "id", "name", "tags">>

\* ', '.join(sorted(value.keys())) (src/compare_apis.py, line 447)
RECURSIVE JoinSortedKeys(_, _)
JoinSortedKeys(keys, order) ==
    IF Len(order) = 0 THEN ""
    ELSE IF Head(order) \notin keys THEN JoinSortedKeys(keys, Tail(order))
    ELSE IF \E i \in 2..Len(order) : order[i] \in keys
    THEN Head(order) \o ", " \o JoinSortedKeys(keys, Tail(order))
    ELSE Head(order)

\* src/compare_apis.py, lines 444-463, the branches in the order of the code
RECURSIVE get_structure(_)
get_structure(value) ==
    IF IsInstance(value, "dict")
    THEN "object(" \o JoinSortedKeys(DOMAIN value.v, SortedKeyOrder) \o ")"
    ELSE IF IsInstance(value, "list")
    THEN (IF Len(value.v) = 0 THEN "array[]"
          ELSE "array[" \o get_structure(value.v[1]) \o "]")
    ELSE IF IsInstance(value, "str") THEN "string"
    ELSE IF IsInstance(value, "int") \/ IsInstance(value, "float") THEN "number"
    ELSE IF IsInstance(value, "bool") THEN "boolean"
    ELSE IF value = None THEN "null"
    ELSE TypeName(value)

\* src/compare_apis.py, lines 465-485
has_structure_difference(old_val, new_val) ==
    IF TypesDiffer(old_val, new_val) THEN TRUE
    ELSE IF IsInstance(old_val, "dict") /\ IsInstance(new_val, "dict")
    THEN DOMAIN old_val.v # DOMAIN new_val.v
    ELSE IF IsInstance(old_val, "list") /\ IsInstance(new_val, "list")
    THEN \/ Len(old_val.v) # Len(new_val.v)
         \/ [i \in 1..Len(old_val.v) |-> get_structure(old_val.v[i])]
              # [i \in 1..Len(new_val.v) |-> get_structure(new_val.v[i])]
    ELSE FALSE

\* values whose tags are taken
StructureValues ==
    Scalars
    \cup {EmptyDict, Dict1("a", PyInt(1)), Dict1("a", PyBool(TRUE)),
          PyDict([key \in {"a", "b"} |-> PyInt(1)]),
          EmptyList, PyList(<<PyInt(1)>>), PyList(<<PyBool(TRUE)>>),
          PyList(<<PyInt(1), PyInt(2)>>), PyList(<<PyFloat(15)>>)}

(***************************************************************************)
(* The tags and the mismatch tests of two values, as a state machine: the  *)
(* engine's extract_structure and type test (line 139), and the            *)
(* comparator's test and tags (src/compare_apis.py, lines 435-439)         *)
(***************************************************************************)
InitStructure ==
    /\ pc = "start"
    /\ hashSeed = 0
    /\ obj1 \in StructureValues
    /\ obj2 \in StructureValues
    /\ path = ""
    /\ differences = <<>>
    /\ structures = None
    /\ InferIdle /\ HeaderIdle /\ PairIdle /\ ApiIdle /\ ToolsIdle

TakeStructures ==
    /\ pc = "start"
    /\ structures' =
         [legacy |-> extract_structure(obj1),
          nextgen |-> extract_structure(obj2),
          type_mismatch |-> TypesDiffer(obj1, obj2),
          old_type |-> get_structure(obj1),
          new_type |-> get_structure(obj2),
          structure_changed |-> has_structure_difference(obj1, obj2)]
    /\ pc' = "done"
    /\ UNCHANGED <<hashSeed, differVars, inferVars, headerVars, pairVars, apiVars,
                   toolVars>>

NextStructure == TakeStructures

SpecStructure == InitStructure /\ [][NextStructure]_vars

StructuresTaken == pc = "done" /\ structures # None

IsBoolean(x) == TypeName(x) = "bool"

IsNumber(x) == TypeName(x) \in {"int", "float"}

\* C20: a boolean and a number get different tags from extract_structure and
\* from _get_structure, the type test of deep_compare_json and
\* _has_structure_difference both report them as different, and whenever a
\* test finds two values of different types their extracted tags differ.
C20_BooleanOwnTag ==
    StructuresTaken =>
      /\ ((IsBoolean(obj1) /\ IsNumber(obj2)) \/ (IsNumber(obj1) /\ IsBoolean(obj2)))
           => /\ structures.legacy # structures.nextgen
              /\ structures.old_type # structures.new_type
              /\ structures.type_mismatch
              /\ structures.structure_changed
      /\ structures.type_mismatch => structures.legacy # structures.nextgen
      /\ (structures.structure_changed /\ TypeName(obj1) # TypeName(obj2))
           => structures.old_type # structures.new_type

(***************************************************************************)
(* APIRequest and the JSON texts of the model (src/compare_apis.py,        *)
(* lines 32-59)                                                            *)
(***************************************************************************)
\* what json.loads and response.json() give for a text that is no JSON
NotJson == [t |-> "JSONDecodeError", v |-> "JSONDecodeError"]

\* the JSON texts of the model with the values json.loads gives for them
JsonTexts ==
    <<[text |-> "{\"a\": 1}", value |-> Dict1("a", PyInt(1))],
      [text |-> "{\n  \"a\": 1\n}", value |-> Dict1("a", PyInt(1))],
      [text |-> "{\"a\": \"x\"}", value |-> Dict1("a", PyStr("x"))],
      [text |-> "{\n  \"a\": \"x\"\n}", value |-> Dict1("a", PyStr("x"))],
      [text |-> "{\"b\": 1}", value |-> Dict1("b", PyInt(1))],
      [text |-> "{\n  \"b\": 1\n}", value |-> Dict1("b", PyInt(1))],
      [text |-> "[1]", value |-> PyList(<<PyInt(1)>>)],
      [text |-> "[\n  1\n]", value |-> PyList(<<PyInt(1)>>)]>>

\* json.loads(text)
JsonLoads(text) ==
    IF \E i \in 1..Len(JsonTexts) : JsonTexts[i].text = text
    THEN JsonTexts[CHOOSE i \in 1..Len(JsonTexts) : JsonTexts[i].text = text].value
    ELSE NotJson

\* json.dumps(value, indent=2) (src/collect_requests.py, line 83)
JsonDumps(value) ==
    CASE value = Dict1("a", PyInt(1)) -> "{\n  \"a\": 1\n}"
      [] value = Dict1("a", PyStr("x")) -> "{\n  \"a\": \"x\"\n}"
      [] value = Dict1("b", PyInt(1)) -> "{\n  \"b\": 1\n}"
      [] value = PyList(<<PyInt(1)>>) -> "[\n  1\n]"

\* a str or None field of a request: None is the Python None, a str its text
NoText == "<None>"

\* __post_init__ (lines 44-50): body_json of a request built from its body
BodyJsonOf(body, body_json) ==
    IF body # NoText /\ body # "" /\ body # "null" /\ JsonLoads(body) # NotJson
    THEN JsonLoads(body)
    ELSE body_json

\* APIRequest(...) with the dataclass defaults
APIRequest(url, method, query_params, headers, body) ==
    [url |-> url, method |-> method, path |-> url.path,
     query_params |-> query_params, headers |-> headers, body |-> body,
     body_json |-> BodyJsonOf(body, None), response |-> None]

\* get_match_key (lines 56-59)
get_match_key(req) == req.method \o ":" \o req.path

(***************************************************************************)
(* make_request and collect_requests (src/collect_requests.py)             *)
(***************************************************************************)
MaxRequests == 2

\* req.method.upper() for the methods of the model
MethodUpper(method) ==
    CASE method = "get" -> "GET"
      [] method = "post" -> "POST"
      [] OTHER -> method

\* the methods with a branch in lines 62-74
SupportedMethods == {"GET", "POST", "PUT", "DELETE", "PATCH"}

\* the classes of an exception raised by the HTTP call, most derived first
ExceptionBases(exception) ==
    CASE exception = "ConnectTimeout" -> {"ConnectTimeout", "RequestException", "Exception"}
      [] exception = "RuntimeError" -> {"RuntimeError", "Exception"}

\* the except clauses of lines 94 and 99, in order
\* faulty variant: only the first clause
HandlerClassesRequestOnly == <<"RequestException">>
\* the code
HandlerClasses == <<"RequestException", "Exception">>

Caught(exception) ==
    \E i \in 1..Len(HandlerClasses) : HandlerClasses[i] \in ExceptionBases(exception)

\* what the HTTP call of lines 63-74 can do: a reply, or an exception
Replies ==
    {[status_code |-> 200, text |-> "{\"a\": 1}", exception |-> NoText],
     [status_code |-> 200, text |-> "[1]", exception |-> NoText],
     [status_code |-> 500, text |-> "Internal Server Error", exception |-> NoText]}

Failures ==
    {[status_code |-> 0, text |-> "", exception |-> e] :
       e \in {"ConnectTimeout", "RuntimeError"}}

Outcomes == Replies \cup Failures

\* whether the call is reached: lines 32 and 62-78
CallIsMade(req, has) == has /\ MethodUpper(req.method) \in SupportedMethods

\* whether make_request lets an exception out
MakeRequestRaises(req, outcome, has) ==
    CallIsMade(req, has) /\ outcome.exception # NoText /\ ~Caught(outcome.exception)

\* lines 30-103
make_request(req, outcome, has) ==
    IF ~has
    THEN [error |-> "requests library not installed. Install with: pip install requests"]
    ELSE IF MethodUpper(req.method) \notin SupportedMethods
    THEN [error |-> "Unsupported HTTP method: " \o req.method]
    ELSE IF outcome.exception # NoText
    THEN (IF HandlerClasses[1] \in ExceptionBases(outcome.exception)
          THEN [error |-> "Request failed: " \o outcome.exception]
          ELSE [error |-> "Unexpected error: " \o outcome.exception])
    ELSE IF JsonLoads(outcome.text) # NotJson
    THEN [status_code |-> outcome.status_code,
          body |-> JsonDumps(JsonLoads(outcome.text)),
          body_json |-> IF TypeName(JsonLoads(outcome.text)) = "dict"
                        THEN JsonLoads(outcome.text) ELSE None]
    ELSE [status_code |-> outcome.status_code, body |-> outcome.text,
          body_json |-> None]

\* max(counts.items(), key=lambda x: x[1])[0] over the counts of the elements
\* of seq (lines 115-121, 124-134): the earliest element with the greatest
\* count, None for no element
MostCommonFirst(seq) ==
    LET count(x) == Cardinality({i \in 1..Len(seq) : seq[i] = x})
        best(i) == \A j \in 1..Len(seq) : count(seq[j]) <= count(seq[i])
    IN IF Len(seq) = 0 THEN NoText
       ELSE seq[CHOOSE i \in 1..Len(seq) : best(i) /\ \A j \in 1..(i - 1) : ~best(j)]

\* f"{parsed.scheme}://{parsed.netloc}" (line 118)
BaseUrl(url) == url.scheme \o "://" \o url.netloc

\* the header names of line 127, in order
AuthHeaderNames == <<"access-token", "authorization", "Authorization">>

\* lines 127-132: the tokens one request adds to the count, none or one
TokensOf(req) ==
    LET usable(i) == /\ AuthHeaderNames[i] \in DOMAIN req.headers
                     /\ req.headers[AuthHeaderNames[i]] # ""
    IN IF \E i \in 1..Len(AuthHeaderNames) : usable(i)
       THEN <<req.headers[AuthHeaderNames[
                CHOOSE i \in 1..Len(AuthHeaderNames) :
                  usable(i) /\ \A j \in 1..(i - 1) : ~usable(j)]]>>
       ELSE <<>>

RECURSIVE AllTokens(_)
AllTokens(reqs) ==
    IF Len(reqs) = 0 THEN <<>> ELSE TokensOf(Head(reqs)) \o AllTokens(Tail(reqs))

\* lines 106-136
extract_metadata(reqs) ==
    [base_url |-> MostCommonFirst([i \in 1..Len(reqs) |-> BaseUrl(reqs[i].url)]),
     auth_token |-> MostCommonFirst(AllTokens(reqs))]

\* urlparse(url) of the urls of the model
FetchUrl(scheme, netloc, path_) ==
    [scheme |-> scheme, netloc |-> netloc, path |-> path_, query |-> ""]

\* the requests FetchParser.parse_file can return (src/compare_apis.py,
\* lines 73-112): any method string, any headers, a body or none
ParsedRequests ==
    {APIRequest(FetchUrl("https", "api.example", "/users"), "GET", <<>>,
                [authorization |-> "t1"], NoText),
     APIRequest(FetchUrl("https", "api.example", "/users"), "post", <<>>,
                [n \in {"access-token", "authorization"} |->
                   IF n = "access-token" THEN "" ELSE "t2"],
                "{\"a\": 1}"),
     APIRequest(FetchUrl("http", "other.example", "/items"), "TRACE", <<>>,
                <<>>, NoText),
     APIRequest(FetchUrl("https", "api.example", "/items"), "DELETE", <<>>,
                [Authorization |-> "t1"], NoText)}

\* dataclasses.asdict(req) (line 156): a dict of the fields of the request
asdict(req) == [field \in DOMAIN req |-> req[field]]

InitCollect ==
    /\ pc = "start"
    /\ hashSeed = 0
    /\ has_requests \in BOOLEAN
    /\ requests_list \in SeqsUpTo(ParsedRequests, MaxRequests)
    /\ next_request = 1
    /\ issued = <<>> /\ sent = <<>> /\ collected = None
    /\ CoreIdle /\ ComparatorIdle /\ WalkIdle

\* one iteration of the loop of lines 146-148
MakeRequest ==
    /\ pc = "start"
    /\ next_request <= Len(requests_list)
    /\ LET req == requests_list[next_request]
       IN \E outcome \in Outcomes :
            /\ issued' = Append(issued, req)
            /\ sent' = IF CallIsMade(req, has_requests) THEN Append(sent, req) ELSE sent
            /\ IF MakeRequestRaises(req, outcome, has_requests)
               THEN /\ pc' = "raised"
                    /\ UNCHANGED <<requests_list, next_request>>
               ELSE /\ pc' = pc
                    /\ requests_list' =
                         [requests_list EXCEPT ![next_request].response =
                            make_request(req, outcome, has_requests)]
                    /\ next_request' = next_request + 1
    /\ UNCHANGED <<hashSeed, has_requests, collected, coreVars, comparatorVars,
                   walkVars>>

\* lines 150-163, after the loop
ReturnCollected ==
    /\ pc = "start"
    /\ next_request = Len(requests_list) + 1
    /\ collected' = [metadata |-> extract_metadata(requests_list),
                     requests |-> [i \in 1..Len(requests_list) |->
                                     asdict(requests_list[i])]]
    /\ pc' = "done"
    /\ UNCHANGED <<hashSeed, has_requests, requests_list, next_request, issued,
                   sent, coreVars, comparatorVars, walkVars>>

NextCollect == MakeRequest \/ ReturnCollected

SpecCollect == InitCollect /\ [][NextCollect]_vars

\* a response of one of the two shapes make_request returns
IsResultRecord(response) ==
    /\ response # None
    /\ DOMAIN response = {"status_code", "body", "body_json"}
IsErrorRecord(response) ==
    /\ response # None
    /\ DOMAIN response = {"error"}
\* the request as it was parsed, before it had a response
AsParsed(req) == [req EXCEPT !.response = None]
\* the requests of seq that get as far as the HTTP call, in order
RECURSIVE ReachingTheCall(_)
ReachingTheCall(seq) ==
    IF Len(seq) = 0 THEN <<>>
    ELSE (IF CallIsMade(Head(seq), has_requests) THEN <<Head(seq)>> ELSE <<>>)
         \o ReachingTheCall(Tail(seq))

\* C21: collect_requests calls make_request once per parsed request, in input
\* order; no call lets an exception out; every request the loop has passed has
\* a response that is a {status_code, body, body_json} record or an {error}
\* record; the requests sent over the network are exactly those with a
\* supported method, whatever happened to the requests before them; and the
\* dict returned holds every request with its response.
C21_ReplayDoesNotAbort ==
    /\ pc # "raised"
    /\ next_request \in 1..(Len(requests_list) + 1)
    /\ issued = [i \in 1..(next_request - 1) |-> AsParsed(requests_list[i])]
    /\ sent = ReachingTheCall(issued)
    /\ \A i \in 1..(next_request - 1) :
         \/ IsResultRecord(requests_list[i].response)
         \/ IsErrorRecord(requests_list[i].response)
    /\ pc = "done" =>
         /\ next_request = Len(requests_list) + 1
         /\ Len(collected.requests) = Len(requests_list)
         /\ \A i \in 1..Len(requests_list) :
              collected.requests[i] = requests_list[i]

\* a batch whose first request failed on the network or had an unsupported
\* method and whose second request was answered
C21_Witness ==
    /\ pc = "done"
    /\ Len(requests_list) = 2
    /\ IsErrorRecord(requests_list[1].response)
    /\ IsResultRecord(requests_list[2].response)
    /\ Len(sent) >= 1

(***************************************************************************)
(* APIComparator (src/compare_apis.py, lines 185-628)                      *)
(***************************************************************************)
\* a str-or-None field as a Python value
TextValue(text) == IF text = NoText THEN None ELSE PyStr(text)

\* the query values of the model in the order sorted() gives them
SortedValueOrder == <<"1", "2">>

\* sorted(values) (line 393)
SortedValues(values) ==
    SelectSeq(SortedValueOrder, LAMBDA x : \E i \in 1..Len(values) : values[i] = x)

\* _normalize_params (lines 388-394); the lists of the model hold no value twice
normalize_params(params) ==
    [key \in DOMAIN params |->
       IF Len(params[key]) > 1
       THEN PyList([i \in 1..Len(SortedValues(params[key])) |->
                      PyStr(SortedValues(params[key])[i])])
       ELSE IF Len(params[key]) = 1 THEN PyStr(params[key][1])
       ELSE PyStr("")]

\* [self._get_structure(item) for item in value] (lines 428-429)
ItemStructures(value) == [i \in 1..Len(value.v) |-> get_structure(value.v[i])]

\* a diff dict of _compare_json with an entry
DiffNonEmpty(diff) ==
    DOMAIN diff.added # {} \/ DOMAIN diff.removed # {} \/ DOMAIN diff.changed # {}

\* _compare_json (lines 396-442)
RECURSIVE compare_json(_, _)
\* lines 416-440: the entry of diff['changed'] for one common key, None for none
ChangedEntry(old_val, new_val) ==
    IF IsInstance(old_val, "dict") /\ IsInstance(new_val, "dict")
    THEN (IF DiffNonEmpty(compare_json(old_val, new_val))
          THEN compare_json(old_val, new_val) ELSE None)
    ELSE IF IsInstance(old_val, "list") /\ IsInstance(new_val, "list")
    THEN (IF ItemStructures(old_val) # ItemStructures(new_val)
          THEN [old_structure |-> ItemStructures(old_val),
                new_structure |-> ItemStructures(new_val)]
          ELSE None)
    ELSE IF has_structure_difference(old_val, new_val)
    THEN [old_type |-> get_structure(old_val), new_type |-> get_structure(new_val)]
    ELSE None

compare_json(old_json, new_json) ==
    LET old_keys == IF IsInstance(old_json, "dict") THEN DOMAIN old_json.v ELSE {}
        new_keys == IF IsInstance(new_json, "dict") THEN DOMAIN new_json.v ELSE {}
    IN [added |-> [key \in new_keys \ old_keys |-> get_structure(new_json.v[key])],
        removed |-> [key \in old_keys \ new_keys |-> get_structure(old_json.v[key])],
        changed |-> [key \in {k \in old_keys \cap new_keys :
                                ChangedEntry(old_json.v[k], new_json.v[k]) # None} |->
                       ChangedEntry(old_json.v[key], new_json.v[key])]]

\* `response and ...`: a response that is a dict with an entry
HasEntries(response) == response # None /\ DOMAIN response # {}
\* 'error' in response
HasError(response) == "error" \in DOMAIN response
\* response is not None and 'error' not in response (lines 553, 559)
Succeeded(response) == response # None /\ ~HasError(response)

\* lines 586-604: the JSON of a saved response, None for none
ResponseJson(response) ==
    IF response.body_json # None THEN response.body_json
    ELSE IF response.body # "" /\ JsonLoads(response.body) # NotJson
    THEN JsonLoads(response.body)
    ELSE None

\* _compare_saved_responses (lines 542-628); the saved responses are None or
\* the dicts make_request returns
compare_saved_responses(old_req, new_req) ==
    LET old_response == old_req.response
        new_response == new_req.response
    IN IF HasEntries(old_response) /\ HasError(old_response)
       THEN [error |-> "Old request error: " \o old_response.error,
             old_success |-> FALSE,
             new_success |-> Succeeded(new_response)]
       ELSE IF HasEntries(new_response) /\ HasError(new_response)
       THEN [error |-> "New request error: " \o new_response.error,
             old_success |-> Succeeded(old_response),
             new_success |-> FALSE]
       ELSE IF old_response = None /\ new_response = None
       THEN None
       ELSE IF old_response = None \/ new_response = None
       THEN [error |-> "One or both responses are missing",
             old_success |-> old_response # None,
             new_success |-> new_response # None]
       ELSE [status_code |-> [old |-> old_response.status_code,
                              new |-> new_response.status_code],
             body |->
               IF ResponseJson(old_response) # None /\ ResponseJson(new_response) # None
               THEN (LET json_diff == compare_json(ResponseJson(old_response),
                                                   ResponseJson(new_response))
                     IN IF DiffNonEmpty(json_diff)
                        THEN [old |-> ResponseJson(old_response),
                              new |-> ResponseJson(new_response),
                              json_diff |-> json_diff]
                        ELSE [old |-> ResponseJson(old_response),
                              new |-> ResponseJson(new_response)])
               ELSE [old |-> TextValue(old_response.body),
                     new |-> TextValue(new_response.body)]]

\* lines 303-327: the entry differences['query_params']
ParamDiff(old_params, new_params) ==
    LET added == [k \in DOMAIN new_params \ DOMAIN old_params |-> new_params[k]]
        removed == [k \in DOMAIN old_params \ DOMAIN new_params |-> old_params[k]]
        changed == [k \in {c \in DOMAIN old_params \cap DOMAIN new_params :
                             old_params[c] # new_params[c]} |->
                      [old |-> old_params[k], new |-> new_params[k]]]
        present == {"old", "new"}
                     \cup (IF DOMAIN added # {} THEN {"added"} ELSE {})
                     \cup (IF DOMAIN removed # {} THEN {"removed"} ELSE {})
                     \cup (IF DOMAIN changed # {} THEN {"changed"} ELSE {})
    IN [k \in present |->
          CASE k = "old" -> old_params
            [] k = "new" -> new_params
            [] k = "added" -> added
            [] k = "removed" -> removed
            [] k = "changed" -> changed]

\* req.body_json if req.body_json else req.body (lines 330-331, 500)
Payload(req) == IF Truthy(req.body_json) THEN req.body_json ELSE TextValue(req.body)

\* lines 333-349: whether differences['payload'] is set
PayloadDiffers(old_req, new_req) ==
    IF Truthy(old_req.body_json) /\ Truthy(new_req.body_json)
    THEN DiffNonEmpty(compare_json(old_req.body_json, new_req.body_json))
    ELSE Payload(old_req) # Payload(new_req)

\* lines 337-349: the entry differences['payload']
PayloadDiff(old_req, new_req) ==
    IF Truthy(old_req.body_json) /\ Truthy(new_req.body_json)
    THEN [old |-> Payload(old_req), new |-> Payload(new_req),
          json_diff |-> compare_json(old_req.body_json, new_req.body_json)]
    ELSE [old |-> Payload(old_req), new |-> Payload(new_req)]

\* lines 352-354: response_data
\* faulty variant: the comparison is skipped when either response is missing
ResponseDataBothPresent(old_req, new_req) ==
    IF old_req.response # None /\ new_req.response # None
    THEN compare_saved_responses(old_req, new_req)
    ELSE None
\* the code
ResponseData(old_req, new_req) ==
    IF old_req.response # None \/ new_req.response # None
    THEN compare_saved_responses(old_req, new_req)
    ELSE None

\* lines 355-371: whether differences['response'] is set
ResponseDiffers(response_data) ==
    /\ response_data # None
    /\ ~HasError(response_data)
    /\ \/ response_data.status_code.old # response_data.status_code.new
       \/ "json_diff" \in DOMAIN response_data.body
       \/ response_data.body.old # response_data.body.new

\* the dict differences of _compare_requests (lines 294-371)
RequestDifferences(old_req, new_req) ==
    LET old_params == normalize_params(old_req.query_params)
        new_params == normalize_params(new_req.query_params)
        response_data == ResponseData(old_req, new_req)
        present == (IF old_req.path # new_req.path THEN {"path"} ELSE {})
                     \cup (IF old_params # new_params THEN {"query_params"} ELSE {})
                     \cup (IF PayloadDiffers(old_req, new_req) THEN {"payload"} ELSE {})
                     \cup (IF ResponseDiffers(response_data) THEN {"response"} ELSE {})
    IN [k \in present |->
          CASE k = "path" -> [old |-> old_req.path, new |-> new_req.path]
            [] k = "query_params" -> ParamDiff(old_params, new_params)
            [] k = "payload" -> PayloadDiff(old_req, new_req)
            [] k = "response" -> response_data]

\* _compare_requests (lines 291-386)
compare_requests(old_req, new_req) ==
    LET request_differences == RequestDifferences(old_req, new_req)
        response_data == ResponseData(old_req, new_req)
        present == {"method", "path", "has_differences"}
                     \cup (IF response_data # None THEN {"response"} ELSE {})
                     \cup (IF DOMAIN request_differences # {} THEN {"differences"} ELSE {})
    IN [k \in present |->
          CASE k = "method" -> old_req.method
            [] k = "path" -> old_req.path
            [] k = "has_differences" -> DOMAIN request_differences # {}
            [] k = "response" -> response_data
            [] k = "differences" -> request_differences]

\* _format_single_response (lines 512-540) of a response make_request returns
format_single_response(response) ==
    IF HasError(response)
    THEN [error |-> response.error, success |-> FALSE]
    ELSE [status_code |-> response.status_code,
          body |-> IF JsonLoads(response.body) # NotJson
                   THEN JsonLoads(response.body) ELSE PyStr(response.body)]

\* _request_to_dict (lines 487-510)
request_to_dict(req) ==
    LET params == normalize_params(req.query_params)
        present == {"method", "path"}
                     \cup (IF DOMAIN params # {} THEN {"query_params"} ELSE {})
                     \cup (IF Truthy(Payload(req)) THEN {"payload"} ELSE {})
                     \cup (IF req.response # None THEN {"response"} ELSE {})
    IN [k \in present |->
          CASE k = "method" -> req.method
            [] k = "path" -> req.path
            [] k = "query_params" -> params
            [] k = "payload" -> Payload(req)
            [] k = "response" -> format_single_response(req.response)]

\* the match keys of the model; a set of them is iterated in this order
\* rotated by the hash seed (line 208)
MatchKeyOrder == <<"GET:/users", "POST:/users">>

MatchKeyRank(key, h) ==
    LET i == CHOOSE j \in 1..Len(MatchKeyOrder) : MatchKeyOrder[j] = key
    IN (i - 1 + Len(MatchKeyOrder) - (h % Len(MatchKeyOrder))) % Len(MatchKeyOrder)

RECURSIVE MatchKeyIteration(_, _)
MatchKeyIteration(S, h) ==
    IF S = {} THEN <<>>
    ELSE LET key == CHOOSE k \in S : \A r \in S : MatchKeyRank(k, h) <= MatchKeyRank(r, h)
         IN <<key>> \o MatchKeyIteration(S \ {key}, h)

\* the keys of {req.get_match_key(): req for req in reqs} (lines 198-199)
IndexKeys(reqs) == {get_match_key(reqs[i]) : i \in 1..Len(reqs)}

\* the value the dict comprehension of lines 198-199 holds for a key
\* faulty variant: the first request with the key
IndexEntryFirst(reqs, key) ==
    reqs[CHOOSE i \in 1..Len(reqs) :
           /\ get_match_key(reqs[i]) = key
           /\ \A j \in 1..(i - 1) : get_match_key(reqs[j]) # key]
\* the code: a later request with the key replaces the earlier one
IndexEntry(reqs, key) ==
    reqs[CHOOSE i \in 1..Len(reqs) :
           /\ get_match_key(reqs[i]) = key
           /\ \A j \in (i + 1)..Len(reqs) : get_match_key(reqs[j]) # key]

\* _extract_metadata (lines 234-289)
comparator_metadata(old, new) ==
    [old_base_url |-> extract_metadata(old).base_url,
     new_base_url |-> extract_metadata(new).base_url,
     old_auth_token |-> extract_metadata(old).auth_token,
     new_auth_token |-> extract_metadata(new).auth_token]

\* compare (lines 191-232)
compare(old, new, h) ==
    LET all_keys == MatchKeyIteration(IndexKeys(old) \cup IndexKeys(new), h)
        both == SelectSeq(all_keys, LAMBDA k : k \in IndexKeys(old) /\ k \in IndexKeys(new))
        old_only == SelectSeq(all_keys, LAMBDA k : k \in IndexKeys(old) /\ k \notin IndexKeys(new))
        new_only == SelectSeq(all_keys, LAMBDA k : k \notin IndexKeys(old) /\ k \in IndexKeys(new))
    IN [metadata |-> comparator_metadata(old, new),
        summary |-> [total_old |-> Len(old), total_new |-> Len(new),
                     matched |-> Len(both), only_in_old |-> Len(old_only),
                     only_in_new |-> Len(new_only)],
        matched |-> [i \in 1..Len(both) |->
                       compare_requests(IndexEntry(old, both[i]), IndexEntry(new, both[i]))],
        only_in_old |-> [i \in 1..Len(old_only) |->
                           request_to_dict(IndexEntry(old, old_only[i]))],
        only_in_new |-> [i \in 1..Len(new_only) |->
                           request_to_dict(IndexEntry(new, new_only[i]))]]

\* a request loaded with its saved response (load_requests_from_file,
\* lines 632-668)
WithResponse(req, response) == [req EXCEPT !.response = response]

JsonReply == [status_code |-> 200, text |-> "{\"a\": 1}", exception |-> NoText]
ArrayReply == [status_code |-> 200, text |-> "[1]", exception |-> NoText]
TextReply == [status_code |-> 500, text |-> "Internal Server Error", exception |-> NoText]
TimedOut == [status_code |-> 0, text |-> "", exception |-> "ConnectTimeout"]

UsersPage(page) ==
    APIRequest(FetchUrl("https", "api.example", "/users"), "GET",
               [page |-> <<page>>], [authorization |-> "t1"], NoText)
UsersPages ==
    APIRequest(FetchUrl("https", "api.example", "/users"), "GET",
               [page |-> <<"2", "1">>], [authorization |-> "t1"], NoText)
CreateUser ==
    APIRequest(FetchUrl("https", "new.example", "/users"), "POST", <<>>,
               [authorization |-> "t2"], "{\"a\": 1}")

\* requests as the two input files can hold them: parsed only (no response),
\* or collected, with the response make_request gave
SavedRequests ==
    {WithResponse(UsersPage("1"), make_request(UsersPage("1"), JsonReply, TRUE)),
     UsersPage("2"),
     WithResponse(UsersPages, make_request(UsersPages, TimedOut, TRUE)),
     WithResponse(UsersPage("2"), make_request(UsersPage("2"), ArrayReply, TRUE)),
     WithResponse(CreateUser, make_request(CreateUser, TextReply, TRUE))}

InitComparator ==
    /\ pc = "start"
    /\ hashSeed \in HashSeeds
    /\ old_requests \in SeqsUpTo(SavedRequests, MaxRequests)
    /\ new_requests \in SeqsUpTo(SavedRequests, MaxRequests)
    /\ comparison = None
    /\ CoreIdle /\ CollectIdle /\ WalkIdle

\* one call of APIComparator.compare
Compare ==
    /\ pc = "start"
    /\ comparison' = compare(old_requests, new_requests, hashSeed)
    /\ pc' = "done"
    /\ UNCHANGED <<hashSeed, old_requests, new_requests, coreVars, collectVars,
                   walkVars>>

NextComparator == Compare

SpecComparator == InitComparator /\ [][NextComparator]_vars

RequestsCompared == pc = "done" /\ comparison # None
\* the keys both sides have
MatchedKeys == IndexKeys(old_requests) \cap IndexKeys(new_requests)
\* the element of comparison.matched for a key
MatchedFor(key) ==
    comparison.matched[CHOOSE i \in 1..Len(comparison.matched) :
        comparison.matched[i].method \o ":" \o comparison.matched[i].path = key]
ElementsOf(seq) == {seq[i] : i \in 1..Len(seq)}

\* C22: after compare, the result for every key both sides have is the
\* comparison of the first old request with that key with the first new one,
\* and a key of one side only is listed with the first request that has it.
C22_FirstRequestPerKey ==
    RequestsCompared =>
      /\ ElementsOf(comparison.matched) =
           {compare_requests(IndexEntryFirst(old_requests, k),
                             IndexEntryFirst(new_requests, k)) : k \in MatchedKeys}
      /\ ElementsOf(comparison.only_in_old) =
           {request_to_dict(IndexEntryFirst(old_requests, k)) :
              k \in IndexKeys(old_requests) \ IndexKeys(new_requests)}
      /\ ElementsOf(comparison.only_in_new) =
           {request_to_dict(IndexEntryFirst(new_requests, k)) :
              k \in IndexKeys(new_requests) \ IndexKeys(old_requests)}

\* C30: after compare, total_old = matched + only_in_old and
\* total_new = matched + only_in_new in the summary.
C30_SummaryConsistent ==
    RequestsCompared =>
      /\ comparison.summary.total_old =
           comparison.summary.matched + comparison.summary.only_in_old
      /\ comparison.summary.total_new =
           comparison.summary.matched + comparison.summary.only_in_new

\* a saved response that is missing or an {error} record
MissingOrErrored(response) == response = None \/ HasError(response)
\* the result carries a 'response' entry with an error string and flags that
\* are false exactly for the side that is missing or errored
ReportsFailure(result, old_req, new_req) ==
    /\ "response" \in DOMAIN result
    /\ DOMAIN result.response = {"error", "old_success", "new_success"}
    /\ result.response.error # ""
    /\ result.response.old_success = ~MissingOrErrored(old_req.response)
    /\ result.response.new_success = ~MissingOrErrored(new_req.response)

\* C23 as stated: for every matched pair where either saved response is
\* absent or is an {error} record, the result reports the failure.
C23_MissingOrErrorReportedEvenBothAbsent ==
    RequestsCompared =>
      \A k \in MatchedKeys :
        LET old_req == IndexEntry(old_requests, k)
            new_req == IndexEntry(new_requests, k)
        IN (MissingOrErrored(old_req.response) \/ MissingOrErrored(new_req.response))
             => ReportsFailure(MatchedFor(k), old_req, new_req)

\* C23: for every matched pair where a saved response is an {error} record
\* or exactly one saved response is absent, the result reports the failure:
\* a 'response' entry with an error string and flags false exactly for the
\* side that is missing or errored; where both are absent and neither is an
\* error record, the result has no 'response' entry.
C23_MissingOrErrorReported ==
    RequestsCompared =>
      \A k \in MatchedKeys :
        LET old_req == IndexEntry(old_requests, k)
            new_req == IndexEntry(new_requests, k)
        IN IF old_req.response = None /\ new_req.response = None
           THEN "response" \notin DOMAIN MatchedFor(k)
           ELSE (MissingOrErrored(old_req.response) \/ MissingOrErrored(new_req.response))
                  => ReportsFailure(MatchedFor(k), old_req, new_req)

\* a matched pair whose old response is absent and whose new response is an
\* answer, reported with old_success false and new_success true
C23_Witness ==
    /\ RequestsCompared
    /\ \E k \in MatchedKeys :
         /\ IndexEntry(old_requests, k).response = None
         /\ Succeeded(IndexEntry(new_requests, k).response)
         /\ MatchedFor(k).response.old_success = FALSE
         /\ MatchedFor(k).response.new_success = TRUE

(***************************************************************************)
(* deep_compare_json on objects whose keys are any JSON strings: the empty *)
(* string and the word the code uses for the top level are keys too        *)
(***************************************************************************)
PathKeys == {"", "root", "a"}

PathFields == {PyInt(1), PyStr("x"), Dict1("", PyInt(1))}

PathValues ==
    {PyInt(1), PyStr("x"), PyList(<<PyInt(1)>>)}
    \cup {PyDict(f) : f \in DictsOver(PathKeys, PathFields)}

InitPaths ==
    /\ pc = "start"
    /\ hashSeed \in HashSeeds
    /\ obj1 \in PathValues
    /\ obj2 \in PathValues
    /\ path \in Paths
    /\ differences = <<>>
    /\ InferIdle /\ HeaderIdle /\ PairIdle /\ ApiIdle /\ StructuresIdle /\ ToolsIdle

SpecPaths == InitPaths /\ [][Next]_vars

\* C24: after a top-level call (path ""), every record's path is non-empty;
\* a key that only one of two top-level objects has is reported at the path
\* that is the key; and a record at the path "root" is a type_mismatch of
\* the two top-level values.
C24_RecordPaths ==
    (Compared /\ path = "") =>
      /\ \A i \in 1..Len(differences) : differences[i].path # ""
      /\ BothDicts =>
           \A k \in (DOMAIN obj1.v \cup DOMAIN obj2.v) \ (DOMAIN obj1.v \cap DOMAIN obj2.v) :
             \E i \in 1..Len(differences) :
               /\ differences[i].path = k
               /\ differences[i].type \in {"added", "removed"}
      /\ \A i \in 1..Len(differences) :
           differences[i].path = "root" =>
             /\ differences[i].type = "type_mismatch"
             /\ TypesDiffer(obj1, obj2)
             /\ Len(differences) = 1

\* the type names of a value and of every value nested in it
RECURSIVE TypeNamesIn(_)
TypeNamesIn(value) ==
    {TypeName(value)}
    \cup (IF TypeName(value) = "dict"
          THEN UNION {TypeNamesIn(value.v[k]) : k \in DOMAIN value.v}
          ELSE IF TypeName(value) = "list"
          THEN UNION {TypeNamesIn(value.v[i]) : i \in 1..Len(value.v)}
          ELSE {})

\* the primitive tags inside a shape: its strings
RECURSIVE ShapeTags(_)
ShapeTags(shape) ==
    IF TypeName(shape) = "str" THEN {shape.v}
    ELSE IF TypeName(shape) = "dict"
    THEN UNION {ShapeTags(shape.v[k]) : k \in DOMAIN shape.v}
    ELSE IF TypeName(shape) = "list"
    THEN UNION {ShapeTags(shape.v[i]) : i \in 1..Len(shape.v)}
    ELSE {}

\* C26: after a call on two arrays, the legacy / nextgen tag of every
\* type_mismatch record is the type name of a value found in the legacy /
\* nextgen array, and so is every primitive tag inside a carried shape.
C26_TagsDescribeInputs ==
    (Compared /\ BothLists) =>
      \A i \in 1..Len(differences) :
        LET record == differences[i]
        IN /\ record.type = "type_mismatch" =>
                /\ record.legacy \in TypeNamesIn(obj1)
                /\ record.nextgen \in TypeNamesIn(obj2)
           /\ "legacy_value" \in DOMAIN record =>
                ShapeTags(record.legacy_value) \subseteq TypeNamesIn(obj1)
           /\ "nextgen_value" \in DOMAIN record =>
                ShapeTags(record.nextgen_value) \subseteq TypeNamesIn(obj2)

\* a record with the two sides exchanged
SwapRecord(record) ==
    CASE record.type = "added" -> Removed(record.path, record.nextgen_value)
      [] record.type = "removed" -> Added(record.path, record.legacy_value)
      [] record.type = "type_mismatch" ->
           [type |-> "type_mismatch", path |-> record.path,
            legacy |-> record.nextgen, nextgen |-> record.legacy,
            legacy_value |-> record.nextgen_value,
            nextgen_value |-> record.legacy_value]

\* C27: the records of deep_compare_json(obj2, obj1, path) are, as a
\* multiset, the records of deep_compare_json(obj1, obj2, path) with added
\* and removed exchanged and the legacy and nextgen fields exchanged; one
\* list is empty exactly if the other is.
C27_SwapSymmetry ==
    Compared =>
      LET swapped == deep_compare_json(obj2, obj1, path, hashSeed)
      IN /\ BagOfSeq(swapped) =
              BagOfSeq([i \in 1..Len(differences) |-> SwapRecord(differences[i])])
         /\ (Len(swapped) = 0) <=> (Len(differences) = 0)

\* two objects, one with a key the other lacks and both with a common key of
\* two types
C27_Witness ==
    /\ Compared /\ BothDicts
    /\ \E i, k \in 1..Len(differences) :
         /\ differences[i].type = "removed"
         /\ differences[k].type = "type_mismatch"

\* C28: the key sets of added, removed and modified are pairwise disjoint;
\* every key in modified is in both dicts with different raw values, which
\* the entry carries; a header dict compared with itself is identical for
\* both values of the flag; and compare_headers(headers2, headers1, flag) has
\* added and removed exchanged and the same modified keys.
C28_DisjointMinimalSymmetric ==
    HeadersCompared =>
      LET swapped == compare_headers(headers2, headers1, ignore_flag)
      IN /\ DOMAIN header_diff.added \cap DOMAIN header_diff.removed = {}
         /\ DOMAIN header_diff.added \cap DOMAIN header_diff.modified = {}
         /\ DOMAIN header_diff.removed \cap DOMAIN header_diff.modified = {}
         /\ \A k \in DOMAIN header_diff.modified :
              /\ k \in DOMAIN headers1 \cap DOMAIN headers2
              /\ headers1[k] # headers2[k]
              /\ header_diff.modified[k] = [legacy |-> headers1[k], nextgen |-> headers2[k]]
         /\ \A flag \in BOOLEAN :
              /\ compare_headers(headers1, headers1, flag).identical
              /\ compare_headers(headers2, headers2, flag).identical
         /\ swapped.added = header_diff.removed
         /\ swapped.removed = header_diff.added
         /\ DOMAIN swapped.modified = DOMAIN header_diff.modified
         /\ swapped.identical = header_diff.identical

\* a comparison with an added, a removed and a modified key
C28_Witness ==
    /\ HeadersCompared
    /\ DOMAIN header_diff.added # {}
    /\ DOMAIN header_diff.removed # {}
    /\ DOMAIN header_diff.modified # {}

\* C29: for every entry of common_endpoints, request.method_identical is
\* true, and the legacy and nextgen exchanges grouped under its key, the two
\* representatives among them, have one method.
C29_MethodIdenticalInPathMode ==
    ApisCompared =>
      \A endpoint \in DOMAIN report.common_endpoints :
        /\ report.common_endpoints[endpoint].request.method_identical = TRUE
        /\ \A i \in DOMAIN legacy_entries, j \in DOMAIN nextgen_entries :
             (KeyOf(legacy_entries[i]) = endpoint /\ KeyOf(nextgen_entries[j]) = endpoint)
               => legacy_entries[i].method = nextgen_entries[j].method

\* a common endpoint whose path one side also has under another method
C29_Witness ==
    /\ ApisCompared
    /\ \E endpoint \in DOMAIN report.common_endpoints :
         \E i \in DOMAIN legacy_entries, j \in DOMAIN nextgen_entries :
           /\ KeyOf(nextgen_entries[j]) = endpoint
           /\ legacy_entries[i].normalized_path = nextgen_entries[j].normalized_path
           /\ legacy_entries[i].method # nextgen_entries[j].method

(***************************************************************************)
(* deep_compare_json as a walk: one step per activation of the function.   *)
(* pending holds the calls made and not yet run, the innermost first;      *)
(* differences collects the records the activations append.                *)
(***************************************************************************)
Activation(a, b, p) == [legacy |-> a, nextgen |-> b, path |-> p]

\* the recursive calls one pass of the key loop makes (line 169)
KeyCalls(key, a, b, p) ==
    IF key \in DOMAIN a.v /\ key \in DOMAIN b.v
    THEN <<Activation(a.v[key], b.v[key], KeyPath(p, key))>>
    ELSE <<>>

\* the records one pass of the key loop appends itself (lines 155-166)
KeyRecords(key, a, b, p) ==
    IF key \notin DOMAIN a.v THEN <<Added(KeyPath(p, key), b.v[key])>>
    ELSE IF key \notin DOMAIN b.v THEN <<Removed(KeyPath(p, key), a.v[key])>>
    ELSE <<>>

RECURSIVE DictCalls(_, _, _, _)
DictCalls(keys, a, b, p) ==
    IF Len(keys) = 0 THEN <<>>
    ELSE KeyCalls(Head(keys), a, b, p) \o DictCalls(Tail(keys), a, b, p)

RECURSIVE DictRecords(_, _, _, _)
DictRecords(keys, a, b, p) ==
    IF Len(keys) = 0 THEN <<>>
    ELSE KeyRecords(Head(keys), a, b, p) \o DictRecords(Tail(keys), a, b, p)

\* the recursive call of the list branch (lines 175-180)
\* faulty variant: the call is made on the two lists themselves
ListCallsOnLists(a, b, p, h) ==
    IF Len(a.v) > 0 /\ Len(b.v) > 0
    THEN <<Activation(a, b, p)>>
    ELSE <<>>
\* the code: the call is made on the two inferred shapes
ListCalls(a, b, p, h) ==
    IF Len(a.v) > 0 /\ Len(b.v) > 0
    THEN <<Activation(extract_common_list_structure(a.v, h),
                      extract_common_list_structure(b.v, h), ItemPath(p))>>
    ELSE <<>>

\* the records the list branch appends itself (lines 181-200)
ListRecords(a, b, p, h) ==
    IF Len(a.v) > 0 /\ Len(b.v) = 0
    THEN <<Removed(ItemPath(p), extract_common_list_structure(a.v, h))>>
    ELSE IF Len(a.v) = 0 /\ Len(b.v) > 0
    THEN <<Added(ItemPath(p), extract_common_list_structure(b.v, h))>>
    ELSE <<>>

\* the recursive calls one activation makes, in the order it makes them
Calls(act, h) ==
    IF TypesDiffer(act.legacy, act.nextgen) THEN <<>>
    ELSE IF TypeName(act.legacy) = "dict"
    THEN DictCalls(SetIteration(DOMAIN act.legacy.v \cup DOMAIN act.nextgen.v, h),
                   act.legacy, act.nextgen, act.path)
    ELSE IF TypeName(act.legacy) = "list"
    THEN ListCalls(act.legacy, act.nextgen, act.path, h)
    ELSE <<>>

\* the records one activation appends itself
OwnRecords(act, h) ==
    IF TypesDiffer(act.legacy, act.nextgen)
    THEN <<TypeMismatch(act.legacy, act.nextgen, act.path)>>
    ELSE IF TypeName(act.legacy) = "dict"
    THEN DictRecords(SetIteration(DOMAIN act.legacy.v \cup DOMAIN act.nextgen.v, h),
                     act.legacy, act.nextgen, act.path)
    ELSE IF TypeName(act.legacy) = "list"
    THEN ListRecords(act.legacy, act.nextgen, act.path, h)
    ELSE <<>>

\* the values the walk is started on: arrays nested in arrays and in objects
WalkValues ==
    {PyInt(1), EmptyList, Dict1("a", PyInt(1)),
     PyList(<<PyInt(1)>>), PyList(<<PyStr("x"), PyInt(1)>>),
     PyList(<<PyList(<<PyInt(1)>>)>>),
     PyList(<<PyList(<<PyList(<<PyInt(1)>>)>>)>>),
     PyList(<<EmptyList>>),
     Dict1("a", PyList(<<Dict1("b", PyInt(1))>>)),
     PyList(<<Dict1("a", PyList(<<PyInt(1)>>))>>),
     PyDict([key \in {"a", "b"} |->
               IF key = "a" THEN PyList(<<PyInt(1)>>) ELSE PyList(<<PyStr("x")>>)])}

InitWalk ==
    /\ pc = "start"
    /\ hashSeed \in HashSeeds
    /\ obj1 \in WalkValues
    /\ obj2 \in WalkValues
    /\ path = ""
    /\ differences = <<>>
    /\ pending = <<Activation(obj1, obj2, path)>>
    /\ activations = <<>>
    /\ InferIdle /\ HeaderIdle /\ PairIdle /\ ApiIdle /\ StructuresIdle
    /\ CollectIdle /\ ComparatorIdle

\* one activation runs: it appends its records and makes its calls
RunActivation ==
    /\ pc = "start"
    /\ Len(pending) > 0
    /\ differences' = differences \o OwnRecords(Head(pending), hashSeed)
    /\ pending' = Calls(Head(pending), hashSeed) \o Tail(pending)
    /\ activations' = Append(activations, Head(pending))
    /\ UNCHANGED <<pc, hashSeed, obj1, obj2, path, inferVars, headerVars, pairVars,
                   apiVars, structures, collectVars, comparatorVars>>

\* the outermost activation returns
ReturnDifferences ==
    /\ pc = "start"
    /\ Len(pending) = 0
    /\ pc' = "done"
    /\ UNCHANGED <<hashSeed, differVars, inferVars, headerVars, pairVars, apiVars,
                   structures, toolVars>>

NextWalk == RunActivation \/ ReturnDifferences

SpecWalk == InitWalk /\ [][NextWalk]_vars

\* an activation that is called runs, and one that has run returns
SpecWalkFair == SpecWalk /\ WF_vars(NextWalk)

\* how deep arrays are nested in a value: 0 for a value without an array
RECURSIVE ArrayDepth(_)
ArrayDepth(value) ==
    LET Greatest(S) == IF S = {} THEN 0 ELSE CHOOSE n \in S : \A m \in S : m <= n
    IN IF TypeName(value) = "list"
       THEN 1 + Greatest({ArrayDepth(value.v[i]) : i \in 1..Len(value.v)})
       ELSE IF TypeName(value) = "dict"
       THEN Greatest({ArrayDepth(value.v[k]) : k \in DOMAIN value.v})
       ELSE 0

\* a call made by activation act on the values of one key of its two objects
OnSubValues(call, act) ==
    /\ TypeName(act.legacy) = "dict" /\ TypeName(act.nextgen) = "dict"
    /\ \E k \in DOMAIN act.legacy.v \cap DOMAIN act.nextgen.v :
         call.legacy = act.legacy.v[k] /\ call.nextgen = act.nextgen.v[k]

\* a call made by activation act on the shapes inferred from its two arrays,
\* each nested less deep than the array it was inferred from
OnShallowerShapes(call, act) ==
    /\ TypeName(act.legacy) = "list" /\ TypeName(act.nextgen) = "list"
    /\ call.legacy = extract_common_list_structure(act.legacy.v, hashSeed)
    /\ call.nextgen = extract_common_list_structure(act.nextgen.v, hashSeed)
    /\ ArrayDepth(call.legacy) < ArrayDepth(act.legacy)
    /\ ArrayDepth(call.nextgen) < ArrayDepth(act.nextgen)

\* the step of an activation makes only such calls
CallsDescend ==
    Len(pending) > 0 =>
      LET made == SubSeq(pending', 1, Len(pending') - Len(pending) + 1)
      IN \A i \in 1..Len(made) :
           OnSubValues(made[i], Head(pending)) \/ OnShallowerShapes(made[i], Head(pending))

\* C25: every recursive call of deep_compare_json is made on the values of
\* a key of the two arguments or on the shapes inferred from them, whose
\* array-nesting depth is strictly smaller than that of the arrays; and every
\* top-level call returns.
C25_Terminates == [][CallsDescend]_vars /\ <>(pc = "done")

\* a call on two arrays of arrays has returned after a second pass over the
\* shapes and a third over the shapes of the shapes, with the records of the
\* function
C25_Witness ==
    /\ pc = "done"
    /\ Len(activations) >= 3
    /\ activations[2].path = "[*]"
    /\ activations[3].path = "[*][*]"
    /\ TypeName(activations[2].legacy) = "list"
    /\ BagOfSeq(differences) = BagOfSeq(deep_compare_json(obj1, obj2, path, hashSeed))

\* the records the walk has collected when it returns are the records of
\* deep_compare_json
WalkComputesDifferences ==
    (pc = "done" /\ Len(activations) > 0) =>
      BagOfSeq(differences) = BagOfSeq(deep_compare_json(obj1, obj2, path, hashSeed))

====
